---- MODULE Spec2Model ----
(***************************************************************************)
(* bareclaw: the per-channel dispatch engine (ProcessManager), seen        *)
(* together with the session hosts it connects to.                         *)
(*                                                                         *)
(* One action is one event-loop callback of the daemon, run to completion  *)
(* together with the promise continuations (microtasks) it releases: node  *)
(* runs those before it takes the next I/O event.                          *)
(*                                                                         *)
(* config.timeoutMs is 0 (the configuration of the tests, and "No          *)
(* timeouts" of SOUL.md), so dispatch() sets no timer.                     *)
(*                                                                         *)
(* A socket the manager destroys gets its 'close' event in the closing     *)
(* phase of the same turn of the event loop, before the poll phase can     *)
(* deliver the 'connect' of any later connection: ConnectOk waits for the  *)
(* pending 'close' events of its channel.                                  *)
(***************************************************************************)
EXTENDS Integers, Sequences, FiniteSets, TLC

\* ------------------------------------------------------------------ bounds

Channels == {"x", "y"}
Kinds == {"text", "blocks"}

\* send() calls in one behaviour of Spec
MaxSends == 3
\* socket connections established in one behaviour
MaxConns == 2
\* session hosts spawned in one behaviour
MaxHosts == 1
\* connectOrSpawn invocations in one behaviour
MaxAttempts == 2
\* polls of the socket after the spawn (the code polls 50 times, 200 ms apart)
MaxPolls == 2
\* size of the burst of SpecBurst (the ten concurrent sends of the spec)
BurstSends == 10
\* SpecLife and SpecKill: send() calls, hosts, connections, connectOrSpawn
\* invocations, polls of the socket after a spawn
LifeSends == 2
LifeHosts == 2
LifeConns == 2
LifeAttempts == 2
LifePolls == 1
\* daemon restarts and shutdownHosts() calls, together, in one behaviour
MaxCalls == 1
\* SpecHost: send() calls, agents a host spawns, SIGINTs
HostSends == 2
MaxAgents == 2
MaxSigints == 1
\* a session id an earlier run left in the session file
OldSession == 7
\* SpecPush: register() calls, PushRegistry.send() calls
MaxRegisters == 3
MaxPushes == 2
\* SpecEvents: send() calls, event lines an agent writes in one turn
EventSends == 3
MaxEvents == 1
\* SpecTwo: send() calls on two channels
TwoSends == 2
\* SpecMix: send() calls of the manager; register() calls, and send() calls, of
\* the push registry
MixSends == 2
MixPushes == 1
ContextSends == 3
HttpSends == 1
HttpPushes == 1
MaxRequests == 2
TelegramSends == 2
MaxUpdates == 3
StderrSends == 2
MaxStderrs == 2
MaxLines == 3
MaxReplay == 1
MaxGatedAgents == 2
QueueSends == 4
\* Strings of the push registry, as sequences of characters: the prefixes the
\* adapters register, the channels pushed to, the handlers (by number).
Prefixes == {<<"t">>, <<"t", "g", "-">>, <<"s", "i", "g">>}
PushChannels == {<<"t", "g", "-", "1">>, <<"t", "x">>, <<"h", "t", "t", "p">>}
PushHandlers == {1, 2}
\* The third argument a caller gives to PushRegistry.send(): a media object,
\* or none.
Media == {"undefined", "file"}

VARIABLES
  env,          \* what the callers of this behaviour do, and how much of it:
                \* [scope, sends, kinds, hosts, conns, attempts, polls, serial]
                \* (serial: a caller awaits its send() before the next is made)
  msgs,         \* the send() calls made so far, in call order; a call is known by its index
  channels,     \* ProcessManager.channels: channel -> connection (0: no entry)
  connecting,   \* ProcessManager.connecting: channel -> connectOrSpawn invocation (0: no entry)
  cos,          \* the connectOrSpawn invocations made so far
  conns,        \* the ManagedChannel objects made so far (one per connected socket)
  frames,       \* the user frames written to host sockets, in order
  hosts,        \* the session host processes spawned so far
  sockOwner,    \* socket path of a channel -> the host bound to it (0: no socket file)
  pidFile,      \* PID file of a channel -> the host recorded in it (0: no file)
  sessions,     \* ProcessManager.sessions: channel -> session id (0: no entry)
  sessionFile,  \* the session file on disk: the document saveSessions wrote
  batchLog,     \* the batches drainQueue has taken, in order
  lastLine,     \* channel -> session_id of the last result line that carried one (0: none yet)
  calls,        \* how often the daemon was restarted, shutdownHosts() was called, ...
  push          \* the PushRegistry, and what its handlers were called with

vars == <<env, msgs, channels, connecting, cos, conns, frames, hosts,
          sockOwner, pidFile, sessions, sessionFile, batchLog, lastLine, calls, push>>

\* The state the ProcessManager's code reads and writes, as one record, so that
\* the methods below are functions from state to state.
Cur ==
  [msgs |-> msgs, channels |-> channels, connecting |-> connecting, cos |-> cos,
   conns |-> conns, frames |-> frames, hosts |-> hosts, sessions |-> sessions,
   sessionFile |-> sessionFile, batchLog |-> batchLog]

Install(s) ==
  /\ msgs' = s.msgs
  /\ channels' = s.channels
  /\ connecting' = s.connecting
  /\ cos' = s.cos
  /\ conns' = s.conns
  /\ frames' = s.frames
  /\ hosts' = s.hosts
  /\ sessions' = s.sessions
  /\ sessionFile' = s.sessionFile
  /\ batchLog' = s.batchLog

\* --------------------------------------------------------------- futures

Settle(s, m, how, turn) ==
  [s EXCEPT !.msgs[m].fut = how, !.msgs[m].turn = turn]

RECURSIVE SettleAll(_, _, _)
SettleAll(s, ms, how) ==
  IF ms = <<>> THEN s
  ELSE SettleAll(Settle(s, Head(ms), how, 0), Tail(ms), how)

\* ------------------------------------------------------- ProcessManager

\* socket.write of one user frame on connection k. The frame reaches the
\* host (and its agent's stdin) when the socket is open and k is the host's
\* current client; a write on a closed socket is lost.
Write(s, k, m, content) ==
  LET f == Len(s.frames) + 1
      h == s.conns[k].host
      arrives == /\ s.conns[k].st = "open"
                 /\ s.hosts[h].st = "listening"
                 /\ s.hosts[h].client = k
  IN [s EXCEPT !.frames = Append(@, [conn |-> k, content |-> content, for |-> m]),
               !.msgs[m].frame = f,
               !.hosts[h].inbox = IF arrives THEN Append(@, f) ELSE @]

\* process-manager.ts dispatch(): busy, the event handler of message m, the write.
Dispatch(s, k, m, content) ==
  Write([s EXCEPT !.conns[k].busy = TRUE, !.conns[k].handler = m], k, m, content)

AllText(s, batch) == \A i \in 1..Len(batch) : s.msgs[batch[i]].content.kind = "text"

\* A join that separates the texts by a single newline.
RECURSIVE JoinTextsOneNewline(_, _)
JoinTextsOneNewline(s, batch) ==
  IF Len(batch) = 0 THEN ""
  ELSE IF Len(batch) = 1 THEN s.msgs[batch[1]].content.body
  ELSE s.msgs[batch[1]].content.body \o "\n" \o JoinTextsOneNewline(s, Tail(batch))

\* batch.map(m => m.content).join('\n\n')
RECURSIVE JoinTexts(_, _)
JoinTexts(s, batch) ==
  IF Len(batch) = 0 THEN ""
  ELSE IF Len(batch) = 1 THEN s.msgs[batch[1]].content.body
  ELSE s.msgs[batch[1]].content.body \o "\n\n" \o JoinTexts(s, Tail(batch))

Front(q) == SubSeq(q, 1, Len(q) - 1)

Logged(s, k, batch, d) ==
  [s EXCEPT !.batchLog = Append(@, [conn |-> k, members |-> batch, disp |-> d])]

\* A drainQueue that takes the mixed batch from the wrong end: it dispatches
\* the last entry and puts the others back.
DrainQueueLastFirst(s, k) ==
  LET batch == s.conns[k].queue
      taken == [s EXCEPT !.conns[k].queue = <<>>]
  IN IF Len(batch) = 0 THEN s
     ELSE IF Len(batch) = 1
       THEN Dispatch(Logged(taken, k, batch, batch[1]), k, batch[1], s.msgs[batch[1]].content)
     ELSE IF AllText(s, batch)
       THEN LET last == batch[Len(batch)]
            IN Dispatch(SettleAll(Logged(taken, k, batch, last), Front(batch), "coalesced"),
                        k, last, [kind |-> "text", body |-> JoinTexts(s, batch)])
     ELSE LET last == batch[Len(batch)]
              requeued == [Logged(taken, k, batch, last) EXCEPT !.conns[k].queue = Front(batch) \o @]
          IN Dispatch(requeued, k, last, s.msgs[last].content)

\* A drainQueue that forgets the rest of a mixed batch instead of putting it back.
DrainQueueNoRequeue(s, k) ==
  LET batch == s.conns[k].queue
      taken == [s EXCEPT !.conns[k].queue = <<>>]
  IN IF Len(batch) = 0 THEN s
     ELSE IF Len(batch) = 1
       THEN Dispatch(Logged(taken, k, batch, batch[1]), k, batch[1], s.msgs[batch[1]].content)
     ELSE IF AllText(s, batch)
       THEN LET last == batch[Len(batch)]
            IN Dispatch(SettleAll(Logged(taken, k, batch, last), Front(batch), "coalesced"),
                        k, last, [kind |-> "text", body |-> JoinTexts(s, batch)])
     ELSE Dispatch(Logged(taken, k, batch, batch[1]), k, batch[1], s.msgs[batch[1]].content)

\* A drainQueue that never coalesces: one entry per turn, the rest put back.
DrainQueueOneByOne(s, k) ==
  LET batch == s.conns[k].queue
      taken == [s EXCEPT !.conns[k].queue = <<>>]
  IN IF Len(batch) = 0 THEN s
     ELSE LET first == batch[1]
              requeued == [Logged(taken, k, batch, first) EXCEPT !.conns[k].queue = Tail(batch) \o @]
          IN Dispatch(requeued, k, first, s.msgs[first].content)

\* process-manager.ts drainQueue()
DrainQueue(s, k) ==
  LET batch == s.conns[k].queue
      taken == [s EXCEPT !.conns[k].queue = <<>>]
      log(t, d) == Logged(t, k, batch, d)
  IN IF Len(batch) = 0 THEN s
     ELSE IF Len(batch) = 1
       THEN Dispatch(log(taken, batch[1]), k, batch[1], s.msgs[batch[1]].content)
     ELSE IF AllText(s, batch)
       THEN LET last == batch[Len(batch)]
                combinedText == JoinTexts(s, batch)
            IN Dispatch(SettleAll(log(taken, last), Front(batch), "coalesced"),
                        k, last, [kind |-> "text", body |-> combinedText])
     ELSE LET first == batch[1]
              requeued == [log(taken, first) EXCEPT !.conns[k].queue = Tail(batch) \o @]
          IN Dispatch(requeued, k, first, s.msgs[first].content)

\* A result branch that leaves the event handler installed.
OnResultKeepsHandler(s, k, line) ==
  LET m == s.conns[k].handler
      done == [s EXCEPT !.conns[k].busy = FALSE]
  IN DrainQueue(Settle(done, m, "resolved", line.turn), k)

\* The result branch of the event handler dispatch() installs.
OnResult(s, k, line) ==
  LET m == s.conns[k].handler
      done == [s EXCEPT !.conns[k].handler = 0, !.conns[k].busy = FALSE]
  IN DrainQueue(Settle(done, m, "resolved", line.turn), k)

\* JSON.stringify of the object saveSessions builds: one member per entry of
\* the sessions map, here the set of the <<channel, session id>> pairs.
Stringify(map) == {<<c, map[c]>> : c \in {d \in Channels : map[d] # 0}}

\* What writeFileSync(path, text) leaves at the path when the process dies in
\* it: the file as it was (not opened yet), the file truncated, the text up
\* to some member, or the whole text. A file that is not a whole document is
\* the set of the one pair <<"", n>>, n the members written before the end:
\* JSON.parse throws on it.
Torn(n) == {<<"", n>>}
WriteFileSyncDying(old, text) ==
  {old, text} \cup {Torn(n) : n \in 0..Cardinality(text)}

\* process-manager.ts saveSessions()
SaveSessions(s) == [s EXCEPT !.sessionFile = Stringify(s.sessions)]

\* A loadSessions that reads nothing.
LoadSessionsNothing(doc) == [c \in Channels |-> 0]

\* process-manager.ts loadSessions(): one sessions.set per member of the
\* parsed document; no file (the empty document here) leaves the map empty.
LoadSessions(doc) ==
  [c \in Channels |->
     IF \E e \in doc : e[1] = c THEN (CHOOSE e \in doc : e[1] = c)[2] ELSE 0]

\* onEvent(event), the callback given with send m: events counts the calls
\* made while the future of m is pending, late the calls made after it.
\* A value bound to onEvent that is not a function (a channel context) is
\* truthy and cannot be called: the TypeError is caught and logged.
OnEvent(s, m, line) ==
  IF s.msgs[m].onEvent # "function" THEN s
  ELSE IF s.msgs[m].fut = "pending"
     THEN [s EXCEPT !.msgs[m].events = @ + 1]
     ELSE [s EXCEPT !.msgs[m].late = @ + 1]

\* An event handler that completes the dispatch before it calls onEvent.
EventHandlerResolvesFirst(s, k, line) ==
  LET m == s.conns[k].handler
  IN IF line.type = "result" THEN OnEvent(OnResult(s, k, line), m, line)
     ELSE OnEvent(s, m, line)

\* process-manager.ts dispatch(): managed.eventHandler, the handler of the
\* dispatch in flight on connection k: onEvent first, then, for a result
\* line, the completion.
EventHandler(s, k, line) ==
  LET told == OnEvent(s, s.conns[k].handler, line)
  IN IF line.type = "result" THEN OnResult(told, k, line) ELSE told

\* A line handler that does not capture the session id.
OnLineNoCapture(s, k, line) ==
  IF line.type = "_stderr" THEN s
  ELSE IF s.conns[k].handler # 0 THEN EventHandler(s, k, line) ELSE s

\* A line handler that hands the _stderr lines to the event handler too.
OnLineTellsStderr(s, k, line) ==
  LET c == s.conns[k].ch
      kept == IF line.type = "result" /\ line.sid # 0
                 THEN SaveSessions([s EXCEPT !.sessions[c] = line.sid])
                 ELSE s
  IN IF kept.conns[k].handler # 0 THEN EventHandler(kept, k, line) ELSE kept

\* The rl 'line' handler tryConnect installs on connection k.
OnLine(s, k, line) ==
  IF line.type = "_stderr" THEN s
  ELSE LET c == s.conns[k].ch
           kept == IF line.type = "result" /\ line.sid # 0
                      THEN SaveSessions([s EXCEPT !.sessions[c] = line.sid])
                      ELSE s
       IN IF kept.conns[k].handler # 0 THEN EventHandler(kept, k, line) ELSE kept

\* A send() without the busy test.
SendManagedNoBusyTest(s, k, m) == Dispatch(s, k, m, s.msgs[m].content)

\* A send() that takes the busy flag of any channel for its own.
SendManagedAnyBusy(s, k, m) ==
  IF \E j \in 1..Len(s.conns) : s.conns[j].busy
     THEN [s EXCEPT !.conns[k].queue = Append(@, m)]
     ELSE Dispatch(s, k, m, s.msgs[m].content)

\* send(), from the busy test on (managed is connection k).
SendManaged(s, k, m) ==
  IF s.conns[k].busy
     THEN [s EXCEPT !.conns[k].queue = Append(@, m)]
     ELSE Dispatch(s, k, m, s.msgs[m].content)

\* send(), after `await pending` has returned connection k.
AfterAwait(s, k, m) ==
  LET c == s.msgs[m].ch
  IN SendManaged([s EXCEPT !.channels[c] = k, !.connecting[c] = 0, !.msgs[m].await = 0], k, m)

\* A send() without the finally that deletes the pending connection.
AfterThrowNoFinally(s, m) ==
  Settle([s EXCEPT !.msgs[m].await = 0], m, "rejected", 0)

\* send(), after `await pending` has thrown.
AfterThrow(s, m) ==
  LET c == s.msgs[m].ch
  IN Settle([s EXCEPT !.connecting[c] = 0, !.msgs[m].await = 0], m, "rejected", 0)

\* The send() calls awaiting invocation a, in the order they began to wait.
Waiters(s, a) ==
  SelectSeq([i \in 1..Len(s.msgs) |-> i], LAMBDA i : s.msgs[i].await = a)

RECURSIVE ResumeAll(_, _, _)
ResumeAll(s, k, ws) ==
  IF ws = <<>> THEN s ELSE ResumeAll(AfterAwait(s, k, Head(ws)), k, Tail(ws))

RECURSIVE ThrowAll(_, _)
ThrowAll(s, ws) ==
  IF ws = <<>> THEN s ELSE ThrowAll(AfterThrow(s, Head(ws)), Tail(ws))

\* A send() that does not look at the pending connections.
SendNoDedup(s, c, content) ==
  LET m == Len(s.msgs) + 1
      called == [s EXCEPT !.msgs = Append(@,
                   [ch |-> c, content |-> content, fut |-> "pending", await |-> 0,
                    events |-> 0, late |-> 0, onEvent |-> "function",
                    frame |-> 0, turn |-> 0])]
  IN IF s.channels[c] # 0
        THEN SendManaged(called, s.channels[c], m)
     ELSE LET a == Len(s.cos) + 1
          IN [called EXCEPT !.cos = Append(@, [ch |-> c, stage |-> "first", polls |-> 0, host |-> 0]),
                            !.connecting[c] = a,
                            !.msgs[m].await = a]

\* send(), up to its first await or to its return.
Send(s, c, content) ==
  LET m == Len(s.msgs) + 1
      called == [s EXCEPT !.msgs = Append(@,
                   [ch |-> c, content |-> content, fut |-> "pending", await |-> 0,
                    events |-> 0, late |-> 0, onEvent |-> "function",
                    frame |-> 0, turn |-> 0])]
  IN IF s.channels[c] # 0
        THEN SendManaged(called, s.channels[c], m)
     ELSE IF s.connecting[c] # 0
        THEN [called EXCEPT !.msgs[m].await = s.connecting[c]]
     ELSE LET a == Len(s.cos) + 1
          IN [called EXCEPT !.cos = Append(@, [ch |-> c, stage |-> "first", polls |-> 0, host |-> 0]),
                            !.connecting[c] = a,
                            !.msgs[m].await = a]

\* processManager.send(channel, content, context, onEvent) as the adapters
\* call it: send() declares (channel, content, onEvent), so the context is
\* bound to onEvent, the callback is dropped and the content is written as
\* it came.
SendContext(s, c, content, context) ==
  [Send(s, c, content) EXCEPT !.msgs[Len(s.msgs) + 1].onEvent = context]

\* ------------------------------------------------------------ session host

\* The state of a session host process when it has run its top level: its
\* configuration (ch, resume), no client, the first agent spawned with the
\* configured resume id (spawnClaude() at start-up), nothing buffered.
\*   inbox: the user frames its client socket has delivered and the agent has
\*          not answered;  stdin: those of them written to the agent's stdin;
\*   out:   the lines the agent has written to stdout and claudeRl has not
\*          handed to the line handler yet;
\*   agents: the agents spawned so far, with what was written to their stdin;
\*   ends:  the client sockets whose 'close' event is still to come;
\*   term:  a SIGTERM was sent to it by shutdownHosts();
\*   seen:  the session_id of the last result line of an agent that had one;
\*   evs:   the event lines the agent has written in its current turn.
\* claude is "alive", "exited" (the process has ended, its 'exit' event is
\* still to come) or "dead" (claude.exitCode is set, or claude was killed).
NewHost(c, a, sid) ==
  [ch |-> c, st |-> "starting", client |-> 0, inbox |-> <<>>, resume |-> sid, by |-> a,
   claude |-> "alive", lastSessionId |-> sid, pendingMessages |-> <<>>,
   stdin |-> <<>>, out |-> <<>>, agents |-> <<[resume |-> sid, wrote |-> <<>>]>>,
   ends |-> {}, term |-> FALSE, seen |-> 0, evs |-> 0]

\* The session id an agent reports in its result lines: the one it resumed,
\* or a new one of its own.
SessionOf(s, h) ==
  LET n == Len(s.hosts[h].agents)
      r == s.hosts[h].agents[n].resume
  IN IF r # 0 THEN r ELSE h + 10 * (n - 1)

\* session-host.ts spawnClaude(): a new agent that resumes lastSessionId, and
\* flushPending(): the buffered lines go to its stdin, in order.
SpawnClaude(s, h) ==
  [s EXCEPT
     !.hosts[h].claude = "alive",
     !.hosts[h].agents = Append(@, [resume |-> s.hosts[h].lastSessionId,
                                    wrote |-> s.hosts[h].pendingMessages]),
     !.hosts[h].stdin = s.hosts[h].pendingMessages,
     !.hosts[h].evs = 0,
     !.hosts[h].pendingMessages = <<>>]

\* A line handler that respawns the agent without the line that woke it.
SocketLineDropsLine(s, h, f) ==
  IF s.hosts[h].claude = "dead"
     THEN SpawnClaude(s, h)
     ELSE IF s.hosts[h].claude = "alive"
       THEN [s EXCEPT !.hosts[h].stdin = Append(@, f),
                      !.hosts[h].agents[Len(s.hosts[h].agents)].wrote = Append(@, f)]
     ELSE s

\* session-host.ts, the socketRl 'line' handler, for the user frame f: buffer
\* and respawn when the agent is known to be dead, else write to its stdin
\* (the pipe of an agent that has ended without the host knowing takes
\* nothing any more).
SocketLine(s, h, f) ==
  IF s.hosts[h].claude = "dead"
     THEN SpawnClaude([s EXCEPT !.hosts[h].pendingMessages = Append(@, f)], h)
     ELSE IF s.hosts[h].claude = "alive"
       THEN [s EXCEPT !.hosts[h].stdin = Append(@, f),
                      !.hosts[h].agents[Len(s.hosts[h].agents)].wrote = Append(@, f)]
     ELSE s

\* client.write(line) of host h: the line reaches the manager's line handler
\* when the host has a client whose socket the manager still has open.
Reaches(s, h) == s.hosts[h].client # 0 /\ s.conns[s.hosts[h].client].st = "open"
\* A client.write that never reaches the client.
ForwardDrops(s, h, line) == s

Forward(s, h, line) ==
  IF Reaches(s, h) THEN OnLine(s, s.hosts[h].client, line) ELSE s

\* A claudeRl handler that does not capture the session id.
ClaudeLineNoCapture(s, h, line) == Forward(s, h, line)

\* session-host.ts, the claudeRl 'line' handler: capture the session id of a
\* result line, forward the line to the client.
ClaudeLine(s, h, line) ==
  LET captured == IF line.type = "result" /\ line.sid # 0
                     THEN [s EXCEPT !.hosts[h].lastSessionId = line.sid] ELSE s
  IN Forward(captured, h, line)

\* The synthetic result line of the 'exit' handler: is_error, no session_id;
\* turn 0 marks it as the result of no turn of an agent.
SessionEnded == [type |-> "result", sid |-> 0, turn |-> 0]

\* session-host.ts, the 'exit' handler of the agent: claude.exitCode is set,
\* the synthetic result goes to the client.
ClaudeExit(s, h) ==
  Forward([s EXCEPT !.hosts[h].claude = "dead", !.hosts[h].stdin = <<>>], h, SessionEnded)

\* A SIGTERM handler that leaves the agent running.
OnSigtermLeavesAgent(s, h) ==
  LET k == s.hosts[h].client
  IN [s EXCEPT
        !.hosts[h].st = "dead", !.hosts[h].client = 0, !.hosts[h].inbox = <<>>,
        !.hosts[h].pendingMessages = <<>>, !.hosts[h].ends = {},
        !.conns = IF k # 0 /\ @[k].st = "open" THEN [@ EXCEPT ![k].st = "closing"] ELSE @]

\* session-host.ts, the SIGTERM handler: claude.kill(), cleanup() (the two
\* files, in the action), server.close(), process.exit(0): the client's
\* socket closes with the process.
OnSigterm(s, h) ==
  LET k == s.hosts[h].client
  IN [s EXCEPT
        !.hosts[h].st = "dead", !.hosts[h].client = 0, !.hosts[h].inbox = <<>>,
        !.hosts[h].claude = "dead", !.hosts[h].stdin = <<>>, !.hosts[h].out = <<>>,
        !.hosts[h].pendingMessages = <<>>, !.hosts[h].ends = {},
        !.conns = IF k # 0 /\ @[k].st = "open" THEN [@ EXCEPT ![k].st = "closing"] ELSE @]

\* A SIGINT handler that does what the default disposition does: the process
\* ends, and nothing is cleaned up.
OnSigintDefault(s, h) ==
  LET k == s.hosts[h].client
  IN [s EXCEPT
        !.hosts[h].st = "dead", !.hosts[h].client = 0,
        !.conns = IF k # 0 /\ @[k].st = "open" THEN [@ EXCEPT ![k].st = "closing"] ELSE @]

\* session-host.ts, the SIGINT handler: () => {}
OnSigint(s, h) == s

\* ------------------------------------------------------------- actions

InProgress(a) == cos[a].stage \in {"first", "poll"}

SendCall(c, kind) ==
  /\ c \in env.scope
  /\ kind \in env.kinds
  /\ Len(msgs) < env.sends
  /\ env.serial => \A m \in DOMAIN msgs : msgs[m].fut # "pending"
  /\ (channels[c] = 0 /\ connecting[c] = 0) => Len(cos) < env.attempts
  /\ Install(Send(Cur, c, [kind |-> kind, body |-> ToString(Len(msgs) + 1)]))
  /\ UNCHANGED <<env, sockOwner, pidFile, lastLine, calls, push>>

\* An adapter's call of send with a channel context (http, telegram).
SendContextCall(c, kind) ==
  /\ c \in env.scope
  /\ kind \in env.kinds
  /\ Len(msgs) < env.sends
  /\ env.serial => \A m \in DOMAIN msgs : msgs[m].fut # "pending"
  /\ (channels[c] = 0 /\ connecting[c] = 0) => Len(cos) < env.attempts
  /\ Install(SendContext(Cur, c, [kind |-> kind, body |-> ToString(Len(msgs) + 1)],
                         "context"))
  /\ UNCHANGED <<env, sockOwner, pidFile, lastLine, calls, push>>

\* tryConnect of invocation a gets 'connect': the host bound to the socket
\* path accepts the connection, which replaces its previous client.
ConnectOk(a) ==
  /\ a \in 1..Len(cos) /\ InProgress(a)
  /\ Len(conns) < env.conns
  /\ LET c == cos[a].ch
         h == sockOwner[c]
         k == Len(conns) + 1
     IN /\ h # 0
        /\ hosts[h].st = "listening"
        /\ \A j \in 1..Len(conns) : conns[j].ch = c => conns[j].st # "closing"
        /\ LET old == hosts[h].client
               s1 == [Cur EXCEPT
                        !.conns = Append(
                           IF old # 0 /\ @[old].st = "open"
                              THEN [@ EXCEPT ![old].st = "closing"] ELSE @,
                           [ch |-> c, host |-> h, st |-> "open", busy |-> FALSE,
                            queue |-> <<>>, handler |-> 0]),
                        !.hosts[h].client = k,
                        !.hosts[h].ends = IF old # 0 THEN @ \cup {old} ELSE @,
                        !.cos[a].stage = "ok"]
           IN Install(ResumeAll(s1, k, Waiters(Cur, a)))
  /\ UNCHANGED <<env, sockOwner, pidFile, lastLine, calls, push>>

\* tryConnect of invocation a fails: no socket file, nobody listening on it,
\* or no 'connect' within the 3 s of the connection timeout.
ConnectFail(a) ==
  /\ a \in 1..Len(cos) /\ InProgress(a)
  /\ LET c == cos[a].ch
     IN IF cos[a].stage = "first"
        THEN \* unlinkSync(sockPath); spawn the host with sessions.get(channel)
             /\ Len(hosts) < env.hosts
             /\ sockOwner' = [sockOwner EXCEPT ![c] = 0]
             /\ Install([Cur EXCEPT
                   !.hosts = Append(@, NewHost(c, a, sessions[c])),
                   !.cos[a].stage = "poll",
                   !.cos[a].host = Len(hosts) + 1])
        ELSE /\ UNCHANGED sockOwner
             /\ IF cos[a].polls + 1 < env.polls
                THEN Install([Cur EXCEPT !.cos[a].polls = @ + 1])
                ELSE Install(ThrowAll([Cur EXCEPT !.cos[a].polls = @ + 1,
                                                  !.cos[a].stage = "failed"],
                                      Waiters(Cur, a)))
  /\ UNCHANGED <<env, pidFile, lastLine, calls, push>>

\* session-host.ts start-up: unlink the stale socket, listen, write the PID file.
HostListen(h) ==
  /\ h \in 1..Len(hosts)
  /\ hosts[h].st = "starting"
  /\ hosts' = [hosts EXCEPT ![h].st = "listening"]
  /\ sockOwner' = [sockOwner EXCEPT ![hosts[h].ch] = h]
  /\ pidFile' = [pidFile EXCEPT ![hosts[h].ch] = h]
  /\ UNCHANGED <<env, msgs, channels, connecting, cos, conns, frames,
                 sessions, sessionFile, batchLog, lastLine, calls, push>>

AgentSid(h) == IF hosts[h].resume # 0 THEN hosts[h].resume ELSE h

\* The agent behind host h finishes the turn of the oldest frame on its stdin;
\* the host forwards the result line to its current client, whose line
\* handler runs.
AgentResult(h) ==
  /\ h \in 1..Len(hosts)
  /\ hosts[h].st = "listening"
  /\ hosts[h].inbox # <<>>
  /\ LET k == hosts[h].client
         line == [type |-> "result", sid |-> AgentSid(h), turn |-> Head(hosts[h].inbox)]
         s1 == [Cur EXCEPT !.hosts[h].inbox = Tail(@)]
     IN IF k # 0 /\ conns[k].st = "open"
           THEN /\ Install(OnLine(s1, k, line))
                /\ lastLine' = [lastLine EXCEPT ![hosts[h].ch] = line.sid]
           ELSE /\ Install(s1)
                /\ UNCHANGED lastLine
  /\ UNCHANGED <<env, sockOwner, pidFile, calls, push>>

\* The host process ends: on SIGTERM it kills the agent, removes its socket
\* and PID file (cleanup) and exits; on a crash or SIGKILL it leaves the files
\* behind (and the agent, whose stdin closes, ends by itself). Its client
\* socket closes.
HostDies(h, clean) ==
  /\ h \in 1..Len(hosts)
  /\ hosts[h].st \in {"starting", "listening"}
  /\ LET c == hosts[h].ch
         k == hosts[h].client
     IN /\ hosts' = [hosts EXCEPT ![h].st = "dead", ![h].client = 0, ![h].inbox = <<>>,
                                  ![h].claude = "dead", ![h].stdin = <<>>, ![h].out = <<>>,
                                  ![h].pendingMessages = <<>>, ![h].ends = {}]
        /\ conns' = IF k # 0 /\ conns[k].st = "open"
                       THEN [conns EXCEPT ![k].st = "closing"] ELSE conns
        /\ sockOwner' = IF clean THEN [sockOwner EXCEPT ![c] = 0] ELSE sockOwner
        /\ pidFile' = IF clean THEN [pidFile EXCEPT ![c] = 0] ELSE pidFile
  /\ UNCHANGED <<env, msgs, channels, connecting, cos, frames,
                 sessions, sessionFile, batchLog, lastLine, calls, push>>

\* A 'close' handler that leaves the channel in the map.
OnCloseKeepsChannel(s, k) ==
  LET rejected == SettleAll(s, s.conns[k].queue, "rejected")
  IN [rejected EXCEPT !.conns[k].queue = <<>>, !.conns[k].st = "closed"]

\* The socket 'close' handler tryConnect installs on connection k.
OnClose(s, k) ==
  LET c == s.conns[k].ch
      gone == [s EXCEPT !.channels[c] = 0]
      rejected == SettleAll(gone, s.conns[k].queue, "rejected")
  IN [rejected EXCEPT !.conns[k].queue = <<>>, !.conns[k].st = "closed"]

SocketClose(k) ==
  /\ k \in 1..Len(conns)
  /\ conns[k].st = "closing"
  /\ Install(OnClose(Cur, k))
  /\ UNCHANGED <<env, sockOwner, pidFile, lastLine, calls, push>>

\* A shutdown() that also signals the hosts it was connected to.
ShutdownKillsHosts(s) ==
  LET mine == {s.channels[c] : c \in Channels} \ {0}
  IN [s EXCEPT
        !.conns = [k \in DOMAIN @ |->
                     IF k \in mine /\ @[k].st = "open" THEN [@[k] EXCEPT !.st = "closing"] ELSE @[k]],
        !.hosts = [h \in DOMAIN @ |->
                     IF @[h].client \in mine THEN [@[h] EXCEPT !.client = 0, !.term = TRUE] ELSE @[h]],
        !.channels = [c \in Channels |-> 0]]

\* The host reads the next user frame its client socket has delivered.
HostClientLine(h) ==
  /\ h \in 1..Len(hosts)
  /\ hosts[h].st = "listening"
  /\ hosts[h].inbox # <<>>
  /\ hosts[h].claude = "dead" => Len(hosts[h].agents) < MaxAgents
  /\ Install(SocketLine([Cur EXCEPT !.hosts[h].inbox = Tail(@)], h, Head(hosts[h].inbox)))
  /\ UNCHANGED <<env, sockOwner, pidFile, lastLine, calls, push>>

\* The agent finishes the turn of the oldest frame on its stdin and writes
\* the result line to its stdout.
AgentAnswer(h) ==
  /\ h \in 1..Len(hosts)
  /\ hosts[h].st = "listening"
  /\ hosts[h].claude = "alive"
  /\ hosts[h].stdin # <<>>
  /\ hosts' = [hosts EXCEPT
                 ![h].stdin = Tail(@),
                 ![h].evs = 0,
                 ![h].out = Append(@, [type |-> "result", sid |-> SessionOf(Cur, h),
                                       turn |-> Head(hosts[h].stdin)])]
  /\ UNCHANGED <<env, msgs, channels, connecting, cos, conns, frames, sockOwner, pidFile,
                 sessions, sessionFile, batchLog, lastLine, calls, push>>

\* The agent, in the turn of the oldest frame on its stdin, writes an event
\* line (assistant, tool use, ...) to its stdout.
AgentEvent(h) ==
  /\ h \in 1..Len(hosts)
  /\ hosts[h].st = "listening"
  /\ hosts[h].claude = "alive"
  /\ hosts[h].stdin # <<>>
  /\ hosts[h].evs < MaxEvents
  /\ hosts' = [hosts EXCEPT
                 ![h].evs = @ + 1,
                 ![h].out = Append(@, [type |-> "assistant", sid |-> 0,
                                       turn |-> Head(hosts[h].stdin)])]
  /\ UNCHANGED <<env, msgs, channels, connecting, cos, conns, frames, sockOwner, pidFile,
                 sessions, sessionFile, batchLog, lastLine, calls, push>>

\* The agent writes to its stderr: the 'data' handler of the host wraps the
\* text in a _stderr line for the client.
Stderr == [type |-> "_stderr", sid |-> 0, turn |-> 0]

AgentStderr(h) ==
  /\ h \in 1..Len(hosts)
  /\ hosts[h].st = "listening"
  /\ hosts[h].claude = "alive"
  /\ calls.stderrs < MaxStderrs
  /\ Install(Forward(Cur, h, Stderr))
  /\ calls' = [calls EXCEPT !.stderrs = @ + 1]
  /\ UNCHANGED <<env, sockOwner, pidFile, lastLine, push>>

\* The agent process ends (crash, max turns, ...): what it had not read from
\* its stdin is lost, what it has written to stdout can still be read.
AgentExit(h) ==
  /\ h \in 1..Len(hosts)
  /\ hosts[h].st = "listening"
  /\ hosts[h].claude = "alive"
  /\ hosts' = [hosts EXCEPT ![h].claude = "exited"]
  /\ UNCHANGED <<env, msgs, channels, connecting, cos, conns, frames, sockOwner, pidFile,
                 sessions, sessionFile, batchLog, lastLine, calls, push>>

\* claudeRl hands the host the next line of an agent's stdout.
HostAgentLine(h) ==
  /\ h \in 1..Len(hosts)
  /\ hosts[h].st = "listening"
  /\ hosts[h].out # <<>>
  /\ LET line == Head(hosts[h].out)
         s1 == [Cur EXCEPT !.hosts[h].out = Tail(@),
                           !.hosts[h].seen = IF line.sid # 0 THEN line.sid ELSE @]
     IN /\ Install(ClaudeLine(s1, h, line))
        /\ lastLine' = IF Reaches(Cur, h) /\ line.sid # 0
                          THEN [lastLine EXCEPT ![hosts[h].ch] = line.sid] ELSE lastLine
  /\ UNCHANGED <<env, sockOwner, pidFile, calls, push>>

\* The host gets the 'exit' event of its agent.
HostAgentExit(h) ==
  /\ h \in 1..Len(hosts)
  /\ hosts[h].st = "listening"
  /\ hosts[h].claude = "exited"
  /\ Install(ClaudeExit(Cur, h))
  /\ UNCHANGED <<env, sockOwner, pidFile, lastLine, calls, push>>

\* The host gets SIGTERM.
HostSigterm(h) ==
  /\ h \in 1..Len(hosts)
  /\ hosts[h].st \in {"starting", "listening"}
  /\ Install(OnSigterm(Cur, h))
  /\ sockOwner' = [sockOwner EXCEPT ![hosts[h].ch] = 0]
  /\ pidFile' = [pidFile EXCEPT ![hosts[h].ch] = 0]
  /\ calls' = [calls EXCEPT !.sigterms = @ + 1]
  /\ UNCHANGED <<env, lastLine, push>>

\* The host gets SIGINT.
HostSigint(h) ==
  /\ h \in 1..Len(hosts)
  /\ hosts[h].st \in {"starting", "listening"}
  /\ calls.sigints < MaxSigints
  /\ Install(OnSigint(Cur, h))
  /\ calls' = [calls EXCEPT !.sigints = @ + 1]
  /\ UNCHANGED <<env, sockOwner, pidFile, lastLine, push>>

\* process-manager.ts shutdown(): destroy every socket, clear the map. The
\* hosts see their client go; each socket's 'close' event follows.
ShutdownOp(s) ==
  LET mine == {s.channels[c] : c \in Channels} \ {0}
  IN [s EXCEPT
        !.conns = [k \in DOMAIN @ |->
                     IF k \in mine /\ @[k].st = "open" THEN [@[k] EXCEPT !.st = "closing"] ELSE @[k]],
        !.hosts = [h \in DOMAIN @ |->
                     IF @[h].client \in mine THEN [@[h] EXCEPT !.client = 0] ELSE @[h]],
        !.channels = [c \in Channels |-> 0]]

Shutdown ==
  /\ \E c \in Channels : channels[c] # 0
  /\ Install(ShutdownOp(Cur))
  /\ UNCHANGED <<env, sockOwner, pidFile, lastLine, calls, push>>

\* A shutdownHosts() that signals the hosts of the connected channels only.
ShutdownHostsOnlyConnected(s, pids) ==
  LET channelsToKill == {c \in Channels : s.channels[c] # 0}
      killed == {pids[c] : c \in {d \in channelsToKill : pids[d] # 0}}
      sent == [s EXCEPT
                 !.hosts = [h \in DOMAIN @ |->
                              IF h \in killed /\ @[h].st # "dead"
                                 THEN [@[h] EXCEPT !.term = TRUE] ELSE @[h]]]
  IN ShutdownOp(sent)

\* process-manager.ts shutdownHosts(): SIGTERM to the PID found in the PID
\* file of every channel of the channel map or of the sessions map (a missing
\* file, or a PID that is no process any more, throws and is skipped), then
\* shutdown().
ShutdownHostsOp(s, pids) ==
  LET channelsToKill == {c \in Channels : s.channels[c] # 0 \/ s.sessions[c] # 0}
      killed == {pids[c] : c \in {d \in channelsToKill : pids[d] # 0}}
      sent == [s EXCEPT
                 !.hosts = [h \in DOMAIN @ |->
                              IF h \in killed /\ @[h].st # "dead"
                                 THEN [@[h] EXCEPT !.term = TRUE] ELSE @[h]]]
  IN ShutdownOp(sent)

ShutdownHosts ==
  /\ calls.restarts + calls.kills < MaxCalls
  /\ Install(ShutdownHostsOp(Cur, pidFile))
  /\ calls' = [calls EXCEPT !.kills = @ + 1,
                            !.pending = {a \in DOMAIN cos : InProgress(a)}]
  /\ UNCHANGED <<env, sockOwner, pidFile, lastLine, push>>

\* The daemon process ends and a new one starts (hot reload, restart): every
\* promise, map and socket of the old process is gone with it, the hosts see
\* their client's end of the socket close, and the constructor of the new
\* ProcessManager loads the session file.
RestartOp(s) ==
  [s EXCEPT
     !.msgs = [m \in DOMAIN @ |->
                 IF @[m].fut = "pending" THEN [@[m] EXCEPT !.fut = "gone", !.await = 0] ELSE @[m]],
     !.cos = [a \in DOMAIN @ |->
                IF @[a].stage \in {"first", "poll"} THEN [@[a] EXCEPT !.stage = "gone"] ELSE @[a]],
     !.conns = [k \in DOMAIN @ |->
                  [@[k] EXCEPT !.st = "closed", !.busy = FALSE, !.queue = <<>>, !.handler = 0]],
     !.hosts = [h \in DOMAIN @ |->
                  IF @[h].client # 0 /\ s.conns[@[h].client].st = "open"
                     THEN [@[h] EXCEPT !.ends = @ \cup {s.hosts[h].client}] ELSE @[h]],
     !.channels = [c \in Channels |-> 0],
     !.connecting = [c \in Channels |-> 0],
     !.sessions = LoadSessions(s.sessionFile)]

Restart ==
  /\ calls.restarts + calls.kills < MaxCalls
  /\ Len(msgs) >= 1
  /\ Install(RestartOp(Cur))
  /\ calls' = [calls EXCEPT !.restarts = @ + 1]
  /\ UNCHANGED <<env, sockOwner, pidFile, lastLine, push>>

\* The daemon dies in the saveSessions() of the line handler, at the result
\* line of the agent of host h, and is started again: the new manager loads
\* what the file holds.
CrashSaving(h) ==
  /\ calls.crashes + calls.restarts + calls.kills < MaxCalls
  /\ h \in 1..Len(hosts)
  /\ hosts[h].st = "listening"
  /\ hosts[h].inbox # <<>>
  /\ hosts[h].client # 0 /\ conns[hosts[h].client].st = "open"
  /\ LET c == hosts[h].ch
         sid == AgentSid(h)
         s1 == [Cur EXCEPT !.hosts[h].inbox = Tail(@), !.sessions[c] = sid]
     IN /\ \E left \in WriteFileSyncDying(sessionFile, Stringify(s1.sessions)) :
             Install(RestartOp([s1 EXCEPT !.sessionFile = left]))
        /\ lastLine' = [lastLine EXCEPT ![c] = sid]
  /\ calls' = [calls EXCEPT !.crashes = @ + 1]
  /\ UNCHANGED <<env, sockOwner, pidFile, push>>

\* A 'close' handler that clears the client whichever socket has closed.
HostSockCloseAny(h, k) ==
  /\ h \in 1..Len(hosts)
  /\ k \in hosts[h].ends
  /\ hosts' = [hosts EXCEPT ![h].ends = @ \ {k}, ![h].client = 0]
  /\ UNCHANGED <<env, msgs, channels, connecting, cos, conns, frames, sockOwner, pidFile,
                 sessions, sessionFile, batchLog, lastLine, calls, push>>

\* session-host.ts: the 'close' (or 'error') event of client socket k.
HostSockClose(h, k) ==
  /\ h \in 1..Len(hosts)
  /\ k \in hosts[h].ends
  /\ hosts' = [hosts EXCEPT ![h].ends = @ \ {k},
                            ![h].client = IF @ = k THEN 0 ELSE @]
  /\ UNCHANGED <<env, msgs, channels, connecting, cos, conns, frames, sockOwner, pidFile,
                 sessions, sessionFile, batchLog, lastLine, calls, push>>

\* ------------------------------------------------------------ PushRegistry

\* What a specification lets the callers of the push registry do: the number
\* of register() and send() calls, and their arguments.
NoPush == [registers |-> 0, pushes |-> 0, prefixes |-> {}, channels |-> {}, media |-> {}]
AllPush == [registers |-> MaxRegisters, pushes |-> MaxPushes, prefixes |-> Prefixes,
            channels |-> PushChannels, media |-> Media]

\* push-registry.ts: new PushRegistry(). With the handlers map, the history of
\* the calls: log has one entry per send() (the handler calls it made, what
\* it resolved to), given the third argument of each send(), registers counts
\* the register() calls, firsts has the prefixes in the order of their first
\* registration, newest the handler last registered for each prefix, olds the
\* <<prefix, handler>> pairs that a later registration has replaced.
NewRegistry ==
  [handlers |-> <<>>, log |-> <<>>, given |-> <<>>, registers |-> 0,
   firsts |-> <<>>, newest |-> [p \in Prefixes |-> 0], olds |-> {}]

\* String.prototype.startsWith
StartsWith(channel, prefix) ==
  /\ Len(prefix) <= Len(channel)
  /\ SubSeq(channel, 1, Len(prefix)) = prefix

\* A set() that keeps the value a key has.
MapSetKeepsFirst(handlers, prefix, handler) ==
  IF \E i \in 1..Len(handlers) : handlers[i].prefix = prefix
     THEN handlers
     ELSE Append(handlers, [prefix |-> prefix, handler |-> handler])

\* Map.prototype.set on the handlers map, kept as the sequence of its entries
\* in insertion order: a key that is present keeps its place and gets the new
\* value, a new key goes to the end.
MapSet(handlers, prefix, handler) ==
  IF \E i \in 1..Len(handlers) : handlers[i].prefix = prefix
     THEN [i \in 1..Len(handlers) |->
             IF handlers[i].prefix = prefix
                THEN [prefix |-> prefix, handler |-> handler] ELSE handlers[i]]
     ELSE Append(handlers, [prefix |-> prefix, handler |-> handler])

\* push-registry.ts register()
Register(reg, prefix, handler) ==
  [reg EXCEPT !.handlers = MapSet(@, prefix, handler)]

\* A send() that takes the longest prefix that matches.
RegistrySendLongest(reg, channel, ok) ==
  LET hits == {i \in 1..Len(reg.handlers) : StartsWith(channel, reg.handlers[i].prefix)}
  IN IF hits = {}
        THEN [reg EXCEPT !.log = Append(@, [channel |-> channel, called |-> <<>>,
                                            returned |-> FALSE])]
        ELSE LET i == CHOOSE j \in hits :
                        \A l \in hits : Len(reg.handlers[l].prefix) <= Len(reg.handlers[j].prefix)
             IN [reg EXCEPT !.log = Append(@, [channel |-> channel,
                                               called |-> <<[handler |-> reg.handlers[i].handler,
                                                             channel |-> channel,
                                                             media |-> "undefined",
                                                             gave |-> ok]>>,
                                               returned |-> ok])]

\* push-registry.ts send(channel, text): the loop over the entries from index
\* i on; ok is what the handler that is called resolves to. The handler is
\* called as handler(channel, text), its third argument undefined. The log
\* entry of the call has the handler calls (arguments, what each gave) and
\* what send() resolves to.
RECURSIVE SendFrom(_, _, _, _)
SendFrom(reg, channel, ok, i) ==
  IF i > Len(reg.handlers)
     THEN [reg EXCEPT !.log = Append(@, [channel |-> channel, called |-> <<>>,
                                         returned |-> FALSE])]
     ELSE IF StartsWith(channel, reg.handlers[i].prefix)
       THEN [reg EXCEPT !.log = Append(@, [channel |-> channel,
                                           called |-> <<[handler |-> reg.handlers[i].handler,
                                                         channel |-> channel,
                                                         media |-> "undefined",
                                                         gave |-> ok]>>,
                                           returned |-> ok])]
     ELSE SendFrom(reg, channel, ok, i + 1)

\* A send() that falls back on the first handler when no prefix matches.
RegistrySendFallback(reg, channel, ok) ==
  IF reg.handlers # <<>> /\ \A i \in 1..Len(reg.handlers) :
                              ~StartsWith(channel, reg.handlers[i].prefix)
     THEN [reg EXCEPT !.log = Append(@, [channel |-> channel,
                                         called |-> <<[handler |-> reg.handlers[1].handler,
                                                       channel |-> channel,
                                                       media |-> "undefined",
                                                       gave |-> ok]>>,
                                         returned |-> ok])]
     ELSE SendFrom(reg, channel, ok, 1)

\* push-registry.ts send()
RegistrySend(reg, channel, ok) == SendFrom(reg, channel, ok, 1)

\* push-registry.ts get prefixes()
PrefixesOf(reg) == [i \in 1..Len(reg.handlers) |-> reg.handlers[i].prefix]

\* An adapter registers its push handler.
PushRegister(prefix, handler) ==
  /\ prefix \in env.push.prefixes
  /\ push.registers < env.push.registers
  /\ push' = [Register(push, prefix, handler) EXCEPT
                !.registers = @ + 1,
                !.firsts = IF \E i \in 1..Len(push.firsts) : push.firsts[i] = prefix
                              THEN @ ELSE Append(@, prefix),
                !.newest[prefix] = handler,
                !.olds = (IF push.newest[prefix] \notin {0, handler}
                             THEN @ \cup {<<prefix, push.newest[prefix]>>} ELSE @)
                         \ {<<prefix, handler>>}]
  /\ UNCHANGED <<env, msgs, channels, connecting, cos, conns, frames, hosts, sockOwner,
                 pidFile, sessions, sessionFile, batchLog, lastLine, calls>>

\* A push that marks the connections of the manager busy.
PushSendBusies(channel, media, ok) ==
  /\ channel \in env.push.channels
  /\ media \in env.push.media
  /\ Len(push.log) < env.push.pushes
  /\ push' = [RegistrySend(push, channel, ok) EXCEPT !.given = Append(@, media)]
  /\ conns' = [k \in DOMAIN conns |-> [conns[k] EXCEPT !.busy = TRUE]]
  /\ UNCHANGED <<env, msgs, channels, connecting, cos, frames, hosts, sockOwner,
                 pidFile, sessions, sessionFile, batchLog, lastLine, calls>>

\* A caller pushes a message to a channel: send(channel, text, media).
PushSend(channel, media, ok) ==
  /\ channel \in env.push.channels
  /\ media \in env.push.media
  /\ Len(push.log) < env.push.pushes
  /\ push' = [RegistrySend(push, channel, ok) EXCEPT !.given = Append(@, media)]
  /\ UNCHANGED <<env, msgs, channels, connecting, cos, conns, frames, hosts, sockOwner,
                 pidFile, sessions, sessionFile, batchLog, lastLine, calls>>

\* ------------------------------------- session host with replay gating

\* The session host of session-host.ts that gates on the replay of a resumed
\* agent and knows the interrupt frame. Its state is one record: the module
\* variables claudeReady, readyTimer, pendingMessages and lastSessionId, the
\* agents it has spawned (the last one is `claude`), and, for the claims,
\* the lines it wrote to its client (toClient) and the number of client
\* lines it has read (lines). An agent is live while its process runs,
\* exitCode is set when the host has had its 'exit' event, killed is the
\* flag ChildProcess.kill() sets when a signal was sent; replay counts the
\* history lines it has still to print, todo the frames on its stdin it has
\* not answered, wrote all it was ever given, out its unread stdout.
NewGated(sid) ==
  [lastSessionId |-> sid, claudeReady |-> FALSE, readyTimer |-> FALSE,
   pendingMessages |-> <<>>, agents |-> <<>>, toClient |-> <<>>, lines |-> 0]

\* claude.stdin.write(line) for each line of ls, on the agent `claude`: the
\* pipe of a process that has ended takes nothing.
StdinWrite(g, ls) ==
  LET a == Len(g.agents)
  IN IF g.agents[a].live
        THEN [g EXCEPT !.agents[a].todo = @ \o ls, !.agents[a].wrote = @ \o ls]
        ELSE g

\* onClaudeReady(): the replay is over, the buffered lines go to the agent.
OnClaudeReady(g) ==
  [StdinWrite([g EXCEPT !.claudeReady = TRUE, !.readyTimer = FALSE], g.pendingMessages)
     EXCEPT !.pendingMessages = <<>>]

\* spawnClaude() of the gating host: not ready, the buffer emptied, the timer
\* cleared, a new agent that resumes lastSessionId and replays `replay`
\* lines; without a session to resume it is ready at once.
SpawnClaudeGated(g, replay) ==
  [g EXCEPT
     !.claudeReady = (g.lastSessionId = 0),
     !.pendingMessages = <<>>,
     !.readyTimer = FALSE,
     !.agents = Append(@, [resume |-> g.lastSessionId, live |-> TRUE, exitCode |-> FALSE,
                           killed |-> FALSE,
                           replay |-> IF g.lastSessionId = 0 THEN 0 ELSE replay,
                           todo |-> <<>>, wrote |-> <<>>, out |-> <<>>])]

\* The claudeRl 'line' handler of an agent: the session id of a result line
\* is captured; while not ready the line restarts the quiet timer and is
\* not forwarded, else it goes to the client.
ClaudeLineGated(g, line) ==
  LET captured == IF line.type = "result" /\ line.sid # 0
                     THEN [g EXCEPT !.lastSessionId = line.sid] ELSE g
  IN IF ~captured.claudeReady
        THEN [captured EXCEPT !.readyTimer = TRUE]
        ELSE [captured EXCEPT !.toClient = Append(@, line)]

\* The 'exit' handler of agent a: exitCode is set; a host that was waiting
\* for the replay gives up waiting; the synthetic result goes to the client.
ClaudeExitGated(g, a) ==
  LET gone == [g EXCEPT !.agents[a].exitCode = TRUE]
      ready == IF ~gone.claudeReady
                  THEN [gone EXCEPT !.readyTimer = FALSE, !.claudeReady = TRUE] ELSE gone
  IN [ready EXCEPT !.toClient = Append(@, SessionEnded)]

\* The socketRl 'line' handler of the gating host for an interrupt frame:
\* ignored during the replay, else claude.kill('SIGINT'), which sets
\* claude.killed when the signal was sent (the process was running).
InterruptLine(g) ==
  LET a == Len(g.agents)
  IN IF ~g.claudeReady THEN g
     ELSE IF g.agents[a].live THEN [g EXCEPT !.agents[a].killed = TRUE] ELSE g

\* The socketRl 'line' handler of the gating host for the user frame f:
\* respawn when claude.exitCode !== null || claude.killed, buffer during
\* the replay, else write to the agent's stdin.
SocketLineGated(g, f, replay) ==
  LET a == Len(g.agents)
      up == IF g.agents[a].exitCode \/ g.agents[a].killed
               THEN SpawnClaudeGated(g, replay) ELSE g
  IN IF ~up.claudeReady
        THEN [up EXCEPT !.pendingMessages = Append(@, f)]
        ELSE StdinWrite(up, <<f>>)

Rest == <<env, msgs, channels, connecting, cos, conns, frames, sockOwner, pidFile,
          sessions, sessionFile, batchLog, lastLine, calls, push>>

\* The host reads a line of its client: a user frame or an interrupt frame.
GatedClientLine(kind, replay) ==
  /\ hosts[1].lines < MaxLines
  /\ replay \in 0..MaxReplay
  /\ LET g == [hosts[1] EXCEPT !.lines = @ + 1]
         a == Len(g.agents)
         spawns == g.agents[a].exitCode \/ g.agents[a].killed
     IN /\ (kind = "user" /\ spawns) => Len(g.agents) < MaxGatedAgents
        /\ (kind = "interrupt" \/ ~spawns \/ g.lastSessionId = 0) => replay = 0
        /\ hosts' = <<IF kind = "interrupt" THEN InterruptLine(g)
                       ELSE SocketLineGated(g, g.lines, replay)>>
  /\ UNCHANGED Rest

\* A resumed agent prints a line of the history it replays.
GatedAgentReplay(a) ==
  /\ a \in 1..Len(hosts[1].agents)
  /\ hosts[1].agents[a].live /\ hosts[1].agents[a].replay > 0
  /\ hosts' = <<[hosts[1] EXCEPT
                   !.agents[a].replay = @ - 1,
                   !.agents[a].out = Append(@, [type |-> "assistant", sid |-> 0, turn |-> 0])]>>
  /\ UNCHANGED Rest

\* An agent that has replayed its history answers the oldest frame on its
\* stdin with a result line.
GatedAgentAnswer(a) ==
  /\ a \in 1..Len(hosts[1].agents)
  /\ hosts[1].agents[a].live /\ hosts[1].agents[a].replay = 0
  /\ hosts[1].agents[a].todo # <<>>
  /\ hosts' = <<[hosts[1] EXCEPT
                   !.agents[a].todo = Tail(@),
                   !.agents[a].out = Append(@,
                      [type |-> "result",
                       sid |-> IF hosts[1].agents[a].resume # 0
                                  THEN hosts[1].agents[a].resume ELSE a,
                       turn |-> Head(hosts[1].agents[a].todo)])]>>
  /\ UNCHANGED Rest

\* claudeRl of agent a hands the host the next line of the agent's stdout.
GatedAgentLine(a) ==
  /\ a \in 1..Len(hosts[1].agents)
  /\ hosts[1].agents[a].out # <<>>
  /\ hosts' = <<ClaudeLineGated([hosts[1] EXCEPT !.agents[a].out = Tail(@)],
                                Head(hosts[1].agents[a].out))>>
  /\ UNCHANGED Rest

\* The quiet timer fires: no line of the agent for REPLAY_QUIET_MS.
GatedQuiet ==
  /\ hosts[1].readyTimer
  /\ hosts' = <<OnClaudeReady(hosts[1])>>
  /\ UNCHANGED Rest

\* The process of agent a ends (crash, max turns, a signal it dies of): what
\* it had not read is lost.
GatedAgentEnds(a) ==
  /\ a \in 1..Len(hosts[1].agents)
  /\ hosts[1].agents[a].live
  /\ hosts' = <<[hosts[1] EXCEPT !.agents[a].live = FALSE, !.agents[a].todo = <<>>,
                                 !.agents[a].replay = 0]>>
  /\ UNCHANGED Rest

\* The host gets the 'exit' event of agent a.
GatedAgentExit(a) ==
  /\ a \in 1..Len(hosts[1].agents)
  /\ ~hosts[1].agents[a].live /\ ~hosts[1].agents[a].exitCode
  /\ hosts' = <<ClaudeExitGated(hosts[1], a)>>
  /\ UNCHANGED Rest

\* ------------------------------------------------- signals of the daemon

\* The daemon process: running, restarting (restart() has run and waits for
\* server.close) or exited; exitTimer is the 5 s timer of restart().
Running == calls.daemon # "exited"

\* A restart() that relies on server.close alone.
RestartCallNoTimer(d) ==
  [d EXCEPT !.daemon = "restarting", !.signal = "restart"]

\* index.ts restart(), after processManager.shutdown(): server.close with
\* the callback that re-executes and exits, and the timer that forces the
\* exit after 5 s.
RestartCall(d) ==
  [d EXCEPT !.daemon = "restarting", !.exitTimer = TRUE, !.signal = "restart"]

\* process.on('SIGTERM'): shutdown() and exit.
DaemonSigterm ==
  /\ calls.daemon = "running"
  /\ Install(ShutdownOp(Cur))
  /\ calls' = [calls EXCEPT !.daemon = "exited", !.signal = "SIGTERM"]
  /\ UNCHANGED <<env, sockOwner, pidFile, lastLine, push>>

\* process.on('SIGINT'): shutdownHosts() and exit.
DaemonSigint ==
  /\ calls.daemon = "running"
  /\ Install(ShutdownHostsOp(Cur, pidFile))
  /\ calls' = [calls EXCEPT !.daemon = "exited", !.signal = "SIGINT"]
  /\ UNCHANGED <<env, sockOwner, pidFile, lastLine, push>>

\* process.on('SIGHUP', restart), or the timer of POST /restart: restart().
DaemonRestart ==
  /\ calls.daemon = "running"
  /\ Install(ShutdownOp(Cur))
  /\ calls' = RestartCall(calls)
  /\ UNCHANGED <<env, sockOwner, pidFile, lastLine, push>>

\* The callback of server.close: the HTTP listener has closed, the daemon
\* re-executes itself and exits.
ServerClosed ==
  /\ calls.daemon = "restarting"
  /\ calls' = [calls EXCEPT !.daemon = "exited", !.exitTimer = FALSE]
  /\ UNCHANGED <<env, msgs, channels, connecting, cos, conns, frames, hosts, sockOwner,
                 pidFile, sessions, sessionFile, batchLog, lastLine, push>>

\* The 5 s timer of restart() fires: process.exit(0).
ForceExit ==
  /\ calls.daemon = "restarting"
  /\ calls.exitTimer
  /\ calls' = [calls EXCEPT !.daemon = "exited", !.exitTimer = FALSE]
  /\ UNCHANGED <<env, msgs, channels, connecting, cos, conns, frames, hosts, sockOwner,
                 pidFile, sessions, sessionFile, batchLog, lastLine, push>>

\* ------------------------------------------------------------ HTTP adapter

\* The Authorization headers of the requests: none, the configured token,
\* another token, and near misses of the exact header.
Headers == {"", "Bearer secret", "Bearer wrong", "bearer secret", "secret",
            "Bearer secret "}
Tokens == {"", "secret"}

\* A middleware that looks at the scheme only.
AuthAnyBearer(config, header) ==
  ~(config.httpToken # "" /\ ~(Len(header) >= 7 /\ SubSeq(header, 1, 7) = "Bearer "))

\* createHttpAdapter: the bearer token middleware, installed when a token is
\* configured. TRUE when the request goes on to its route (next()), FALSE
\* when it is answered 401.
Auth(config, header) ==
  ~(config.httpToken # "" /\ header # "Bearer " \o config.httpToken)

Answered(route, header, status) ==
  [calls EXCEPT !.http = @ + 1,
                !.answer = [route |-> route, header |-> header, status |-> status]]

Rejected(route, header) ==
  /\ calls' = Answered(route, header, 401)
  /\ UNCHANGED <<env, msgs, channels, connecting, cos, conns, frames, hosts, sockOwner,
                 pidFile, sessions, sessionFile, batchLog, lastLine, push>>

\* POST /message with a text: the middleware, then processManager.send(ch,
\* text, context), whose result is the response (status 0: not yet sent).
HttpMessage(header, c) ==
  /\ header \in env.headers
  /\ c \in env.scope
  /\ calls.http < env.requests
  /\ IF ~Auth(env, header) THEN Rejected("message", header)
     ELSE /\ Len(msgs) < env.sends
          /\ (channels[c] = 0 /\ connecting[c] = 0) => Len(cos) < env.attempts
          /\ Install(SendContext(Cur, c, [kind |-> "text", body |-> ToString(Len(msgs) + 1)],
                                 "context"))
          /\ calls' = Answered("message", header, 0)
          /\ UNCHANGED <<env, sockOwner, pidFile, lastLine, push>>

\* POST /send with a channel and a text: the middleware, then
\* pushRegistry.send; 200 when a handler took the message, 404 when not.
HttpSend(header, channel, ok) ==
  /\ header \in env.headers
  /\ channel \in env.push.channels
  /\ calls.http < env.requests
  /\ IF ~Auth(env, header) THEN Rejected("send", header)
     ELSE /\ Len(push.log) < env.push.pushes
          /\ LET sent == RegistrySend(push, channel, ok)
             IN /\ push' = [sent EXCEPT !.given = Append(@, "undefined")]
                /\ calls' = Answered("send", header,
                                     IF sent.log[Len(sent.log)].returned THEN 200 ELSE 404)
          /\ UNCHANGED <<env, msgs, channels, connecting, cos, conns, frames, hosts,
                         sockOwner, pidFile, sessions, sessionFile, batchLog, lastLine>>

\* POST /restart: the middleware, then the answer and setTimeout(restart, 100).
HttpRestart(header) ==
  /\ header \in env.headers
  /\ calls.http < env.requests
  /\ IF ~Auth(env, header) THEN Rejected("restart", header)
     ELSE /\ calls' = [Answered("restart", header, 200) EXCEPT !.timers = @ + 1]
          /\ UNCHANGED <<env, msgs, channels, connecting, cos, conns, frames, hosts,
                         sockOwner, pidFile, sessions, sessionFile, batchLog, lastLine, push>>

\* The timer of POST /restart fires: index.ts restart().
RestartTimer ==
  /\ calls.timers > 0
  /\ Install(RestartOp(Cur))
  /\ calls' = [calls EXCEPT !.restarts = @ + 1, !.timers = @ - 1]
  /\ UNCHANGED <<env, sockOwner, pidFile, lastLine, push>>

\* -------------------------------------------------------- Telegram adapter

\* The Telegram user ids of the senders, and the configured allow lists.
Users == {1, 2}
AllowLists == {{}, {1}}

\* A handleMessage without the allow-list test.
HandleMessageOpen(s, config, userId, c, content) ==
  SendContext(s, c, content, "context")

\* telegram.ts handleMessage(ctx, content, logLabel): a message of a user
\* who is not on the allow list is logged and dropped; the others are sent
\* to the channel of the chat, with the context of the chat.
HandleMessage(s, config, userId, c, content) ==
  IF userId \notin config.allowedUsers THEN s
  ELSE SendContext(s, c, content, "context")

\* telegram.ts mediaHandler(type, handler): the allow-list test around the
\* handler of a media update, which stores the file and calls handleMessage.
MediaHandler(s, config, userId, c, content) ==
  IF userId \notin config.allowedUsers THEN s
  ELSE HandleMessage(s, config, userId, c, content)

\* createTelegramAdapter(config, processManager): throws on an empty allow
\* list, before the bot exists; index.ts launches the bot it returns.
CreateTelegramAdapter ==
  /\ calls.bot = "none"
  /\ calls' = [calls EXCEPT !.bot = IF Cardinality(env.allowedUsers) = 0
                                       THEN "failed" ELSE "launched"]
  /\ UNCHANGED <<env, msgs, channels, connecting, cos, conns, frames, hosts, sockOwner,
                 pidFile, sessions, sessionFile, batchLog, lastLine, push>>

Update(s, userId, type) ==
  /\ Install(s)
  /\ calls' = [calls EXCEPT !.updates = @ + 1, !.update = [user |-> userId, type |-> type]]
  /\ UNCHANGED <<env, sockOwner, pidFile, lastLine, push>>

\* bot.on('text'): a text message of user userId in the chat of channel c.
TelegramText(userId, c) ==
  /\ calls.bot = "launched"
  /\ c \in env.scope
  /\ calls.updates < env.updates
  /\ Len(msgs) < env.sends
  /\ (channels[c] = 0 /\ connecting[c] = 0) => Len(cos) < env.attempts
  /\ Update(HandleMessage(Cur, env, userId, c,
                          [kind |-> "text", body |-> ToString(Len(msgs) + 1)]),
            userId, "text")

\* bot.on('photo'), bot.on('document'), ...: a media message of user userId,
\* which becomes content blocks (an image) or a text that names the file.
TelegramMedia(userId, c, kind) ==
  /\ calls.bot = "launched"
  /\ c \in env.scope
  /\ kind \in env.kinds
  /\ calls.updates < env.updates
  /\ Len(msgs) < env.sends
  /\ (channels[c] = 0 /\ connecting[c] = 0) => Len(cos) < env.attempts
  /\ Update(MediaHandler(Cur, env, userId, c,
                         [kind |-> kind, body |-> ToString(Len(msgs) + 1)]),
            userId, "media")

\* --------------------------------------------------------- specifications

InitState ==
  /\ msgs = <<>>
  /\ channels = [c \in Channels |-> 0]
  /\ connecting = [c \in Channels |-> 0]
  /\ cos = <<>>
  /\ conns = <<>>
  /\ frames = <<>>
  /\ hosts = <<>>
  /\ sockOwner = [c \in Channels |-> 0]
  /\ pidFile = [c \in Channels |-> 0]
  /\ sessions = [c \in Channels |-> 0]
  /\ sessionFile = {}
  /\ batchLog = <<>>
  /\ lastLine = [c \in Channels |-> 0]
  /\ calls = [restarts |-> 0, kills |-> 0, sigints |-> 0, sigterms |-> 0, crashes |-> 0,
              http |-> 0, answer |-> [route |-> "", header |-> "", status |-> 0],
              timers |-> 0, bot |-> "none", updates |-> 0, stderrs |-> 0,
              update |-> [user |-> 0, type |-> ""],
              daemon |-> "running", exitTimer |-> FALSE, signal |-> "",
              pending |-> {}]
  /\ push = NewRegistry

Init ==
  /\ env = [scope |-> {"x"}, sends |-> MaxSends, kinds |-> Kinds,
            hosts |-> MaxHosts, conns |-> MaxConns, attempts |-> MaxAttempts,
            polls |-> MaxPolls, serial |-> FALSE,
            push |-> NoPush]
  /\ InitState

Next ==
  \/ \E c \in Channels, kind \in Kinds : SendCall(c, kind)
  \/ \E a \in 1..MaxAttempts : ConnectOk(a)
  \/ \E a \in 1..MaxAttempts : ConnectFail(a)
  \/ \E h \in 1..MaxHosts : HostListen(h)
  \/ \E h \in 1..MaxHosts : AgentResult(h)
  \/ \E h \in 1..MaxHosts, clean \in BOOLEAN : HostDies(h, clean)
  \/ \E k \in 1..MaxConns : SocketClose(k)
  \/ Shutdown

Spec == Init /\ [][Next]_vars

\* A burst of text sends to one channel whose host stays up.
InitBurst ==
  /\ env = [scope |-> {"x"}, sends |-> BurstSends, kinds |-> {"text"},
            hosts |-> MaxHosts, conns |-> MaxConns, attempts |-> MaxAttempts,
            polls |-> MaxPolls, serial |-> FALSE,
            push |-> NoPush]
  /\ InitState

NextBurst ==
  \/ \E c \in Channels, kind \in Kinds : SendCall(c, kind)
  \/ \E a \in 1..MaxAttempts : ConnectOk(a)
  \/ \E a \in 1..MaxAttempts : ConnectFail(a)
  \/ \E h \in 1..MaxHosts : HostListen(h)
  \/ \E h \in 1..MaxHosts : AgentResult(h)

SpecBurst == InitBurst /\ [][NextBurst]_vars

\* Sends of texts and of content blocks that keep arriving on one channel
\* whose host stays up and whose socket stays open.
InitQueue ==
  /\ env = [scope |-> {"x"}, sends |-> QueueSends, kinds |-> Kinds,
            hosts |-> MaxHosts, conns |-> MaxConns, attempts |-> MaxAttempts,
            polls |-> MaxPolls, serial |-> FALSE,
            push |-> NoPush]
  /\ InitState

NextQueue ==
  \/ \E c \in Channels, kind \in Kinds : SendCall(c, kind)
  \/ \E a \in 1..MaxAttempts : ConnectOk(a)
  \/ \E a \in 1..MaxAttempts : ConnectFail(a)
  \/ \E h \in 1..MaxHosts : HostListen(h)
  \/ \E h \in 1..MaxHosts : AgentResult(h)

SpecQueue == InitQueue /\ [][NextQueue]_vars

\* AgentResult(h) can be taken: the host holds a frame that was not answered.
Answerable(h) == h \in 1..Len(hosts) /\ hosts[h].st = "listening" /\ hosts[h].inbox # <<>>

\* The same, with an agent that ends every turn it was given: weak fairness
\* of AgentResult(h), that is WF_vars(AgentResult(h)) with the enabling
\* condition of the action written out.
SpecQueueFair ==
  SpecQueue /\ \A h \in 1..MaxHosts : []<>(~Answerable(h)) \/ []<><<AgentResult(h)>>_vars

\* The life of the hosts of a channel across disconnects, host deaths,
\* restarts of the daemon and shutdownHosts(); the callers send one message
\* at a time.
InitLife ==
  /\ env = [scope |-> {"x"}, sends |-> LifeSends, kinds |-> {"text"},
            hosts |-> LifeHosts, conns |-> LifeConns, attempts |-> LifeAttempts,
            polls |-> LifePolls, serial |-> TRUE,
            push |-> NoPush]
  /\ InitState

NextLife ==
  \/ \E c \in Channels, kind \in Kinds : SendCall(c, kind)
  \/ \E a \in 1..LifeAttempts : ConnectOk(a)
  \/ \E a \in 1..LifeAttempts : ConnectFail(a)
  \/ \E h \in 1..LifeHosts : HostListen(h)
  \/ \E h \in 1..LifeHosts : AgentResult(h)
  \/ \E h \in 1..LifeHosts, clean \in BOOLEAN : HostDies(h, clean)
  \/ \E h \in 1..LifeHosts, k \in 1..LifeConns : HostSockClose(h, k)
  \/ \E k \in 1..LifeConns : SocketClose(k)
  \/ Shutdown
  \/ ShutdownHosts
  \/ Restart

SpecLife == InitLife /\ [][NextLife]_vars

\* Two channels, their hosts, and shutdownHosts().
InitKill ==
  /\ env = [scope |-> Channels, sends |-> LifeSends, kinds |-> {"text"},
            hosts |-> LifeHosts, conns |-> LifeConns, attempts |-> LifeAttempts,
            polls |-> LifePolls, serial |-> TRUE,
            push |-> NoPush]
  /\ InitState

NextKill ==
  \/ \E c \in Channels, kind \in Kinds : SendCall(c, kind)
  \/ \E a \in 1..LifeAttempts : ConnectOk(a)
  \/ \E a \in 1..LifeAttempts : ConnectFail(a)
  \/ \E h \in 1..LifeHosts : HostListen(h)
  \/ \E h \in 1..LifeHosts : AgentResult(h)
  \/ \E h \in 1..LifeHosts, clean \in BOOLEAN : HostDies(h, clean)
  \/ \E k \in 1..LifeConns : SocketClose(k)
  \/ Shutdown
  \/ ShutdownHosts

SpecKill == InitKill /\ [][NextKill]_vars

\* The inside of a session host: its agent, the lines between agent and
\* client, the signals. The manager starts over the session file an earlier
\* run left: empty, or with a record for the channel.
InitHost ==
  /\ env = [scope |-> {"x"}, sends |-> HostSends, kinds |-> {"text"},
            hosts |-> MaxHosts, conns |-> MaxConns, attempts |-> MaxAttempts,
            polls |-> LifePolls, serial |-> FALSE,
            push |-> NoPush]
  /\ \E sid \in {0, OldSession} :
       LET doc == Stringify([c \in Channels |-> IF c = "x" THEN sid ELSE 0])
       IN /\ sessionFile = doc
          /\ sessions = LoadSessions(doc)
  /\ msgs = <<>>
  /\ channels = [c \in Channels |-> 0]
  /\ connecting = [c \in Channels |-> 0]
  /\ cos = <<>>
  /\ conns = <<>>
  /\ frames = <<>>
  /\ hosts = <<>>
  /\ sockOwner = [c \in Channels |-> 0]
  /\ pidFile = [c \in Channels |-> 0]
  /\ batchLog = <<>>
  /\ lastLine = [c \in Channels |-> 0]
  /\ calls = [restarts |-> 0, kills |-> 0, sigints |-> 0, sigterms |-> 0, crashes |-> 0,
              http |-> 0, answer |-> [route |-> "", header |-> "", status |-> 0],
              timers |-> 0, bot |-> "none", updates |-> 0, stderrs |-> 0,
              update |-> [user |-> 0, type |-> ""],
              daemon |-> "running", exitTimer |-> FALSE, signal |-> "",
              pending |-> {}]
  /\ push = NewRegistry

NextHost ==
  \/ \E c \in Channels, kind \in Kinds : SendCall(c, kind)
  \/ \E a \in 1..MaxAttempts : ConnectOk(a)
  \/ \E a \in 1..MaxAttempts : ConnectFail(a)
  \/ \E h \in 1..MaxHosts : HostListen(h)
  \/ \E h \in 1..MaxHosts : HostClientLine(h)
  \/ \E h \in 1..MaxHosts : AgentAnswer(h)
  \/ \E h \in 1..MaxHosts : AgentExit(h)
  \/ \E h \in 1..MaxHosts : HostAgentLine(h)
  \/ \E h \in 1..MaxHosts : HostAgentExit(h)
  \/ \E h \in 1..MaxHosts : HostSigterm(h)
  \/ \E h \in 1..MaxHosts : HostSigint(h)
  \/ \E k \in 1..MaxConns : SocketClose(k)

SpecHost == InitHost /\ [][NextHost]_vars

\* The push registry of a daemon.
InitPush ==
  /\ env = [scope |-> {}, sends |-> 0, kinds |-> {}, hosts |-> 0, conns |-> 0,
            attempts |-> 0, polls |-> 0, serial |-> TRUE,
            push |-> AllPush]
  /\ InitState

NextPush ==
  \/ \E prefix \in Prefixes, handler \in PushHandlers : PushRegister(prefix, handler)
  \/ \E channel \in PushChannels, media \in Media, ok \in BOOLEAN :
       PushSend(channel, media, ok)

SpecPush == InitPush /\ [][NextPush]_vars

\* The lines of a turn on their way from the agent to the callback of the
\* send: sends on one channel, dispatched, queued and coalesced.
InitEvents ==
  /\ env = [scope |-> {"x"}, sends |-> EventSends, kinds |-> {"text"},
            hosts |-> MaxHosts, conns |-> MaxConns, attempts |-> MaxAttempts,
            polls |-> LifePolls, serial |-> FALSE,
            push |-> NoPush]
  /\ InitState

NextEvents ==
  \/ \E c \in Channels, kind \in Kinds : SendCall(c, kind)
  \/ \E a \in 1..MaxAttempts : ConnectOk(a)
  \/ \E a \in 1..MaxAttempts : ConnectFail(a)
  \/ \E h \in 1..MaxHosts : HostListen(h)
  \/ \E h \in 1..MaxHosts : HostClientLine(h)
  \/ \E h \in 1..MaxHosts : AgentEvent(h)
  \/ \E h \in 1..MaxHosts : AgentAnswer(h)
  \/ \E h \in 1..MaxHosts : HostAgentLine(h)

SpecEvents == InitEvents /\ [][NextEvents]_vars

\* The lines of an agent's stdout and stderr on their way to the callback.
InitStderr ==
  /\ env = [scope |-> {"x"}, sends |-> StderrSends, kinds |-> {"text"},
            hosts |-> MaxHosts, conns |-> MaxConns, attempts |-> MaxAttempts,
            polls |-> LifePolls, serial |-> FALSE,
            push |-> NoPush]
  /\ InitState

NextStderr ==
  \/ \E c \in Channels, kind \in Kinds : SendCall(c, kind)
  \/ \E a \in 1..MaxAttempts : ConnectOk(a)
  \/ \E a \in 1..MaxAttempts : ConnectFail(a)
  \/ \E h \in 1..MaxHosts : HostListen(h)
  \/ \E h \in 1..MaxHosts : HostClientLine(h)
  \/ \E h \in 1..MaxHosts : AgentEvent(h)
  \/ \E h \in 1..MaxHosts : AgentStderr(h)
  \/ \E h \in 1..MaxHosts : AgentAnswer(h)
  \/ \E h \in 1..MaxHosts : HostAgentLine(h)

SpecStderr == InitStderr /\ [][NextStderr]_vars

\* The gating session host with its client and its agents: started fresh or
\* with a session to resume.
InitGated ==
  /\ env = [scope |-> {"x"}, sends |-> 0, kinds |-> {"text"},
            hosts |-> 1, conns |-> 0, attempts |-> 0,
            polls |-> 0, serial |-> FALSE,
            push |-> NoPush]
  /\ msgs = <<>> /\ cos = <<>> /\ conns = <<>> /\ frames = <<>> /\ batchLog = <<>>
  /\ channels = [c \in Channels |-> 0]
  /\ connecting = [c \in Channels |-> 0]
  /\ sockOwner = [c \in Channels |-> 0]
  /\ pidFile = [c \in Channels |-> 0]
  /\ sessions = [c \in Channels |-> 0]
  /\ sessionFile = {}
  /\ lastLine = [c \in Channels |-> 0]
  /\ calls = [restarts |-> 0, kills |-> 0, sigints |-> 0, sigterms |-> 0, crashes |-> 0,
              http |-> 0, answer |-> [route |-> "", header |-> "", status |-> 0],
              timers |-> 0, bot |-> "none", updates |-> 0, stderrs |-> 0,
              update |-> [user |-> 0, type |-> ""],
              daemon |-> "running", exitTimer |-> FALSE, signal |-> "",
              pending |-> {}]
  /\ push = NewRegistry
  /\ \E sid \in {0, OldSession}, replay \in 0..MaxReplay :
       /\ sid = 0 => replay = 0
       /\ hosts = <<SpawnClaudeGated(NewGated(sid), replay)>>

NextGated ==
  \/ \E kind \in {"user", "interrupt"}, replay \in 0..MaxReplay : GatedClientLine(kind, replay)
  \/ \E a \in 1..MaxGatedAgents : GatedAgentReplay(a)
  \/ \E a \in 1..MaxGatedAgents : GatedAgentAnswer(a)
  \/ \E a \in 1..MaxGatedAgents : GatedAgentLine(a)
  \/ GatedQuiet
  \/ \E a \in 1..MaxGatedAgents : GatedAgentEnds(a)
  \/ \E a \in 1..MaxGatedAgents : GatedAgentExit(a)

SpecGated == InitGated /\ [][NextGated]_vars

\* The daemon and the signals it handles, with the hosts of its channels.
InitSignals ==
  /\ env = [scope |-> Channels, sends |-> LifeSends, kinds |-> {"text"},
            hosts |-> LifeHosts, conns |-> LifeConns, attempts |-> LifeAttempts,
            polls |-> LifePolls, serial |-> TRUE,
            push |-> NoPush]
  /\ InitState

NextSignals ==
  \/ Running /\ \E c \in Channels, kind \in Kinds : SendCall(c, kind)
  \/ Running /\ \E a \in 1..LifeAttempts : ConnectOk(a)
  \/ Running /\ \E a \in 1..LifeAttempts : ConnectFail(a)
  \/ \E h \in 1..LifeHosts : HostListen(h)
  \/ \E h \in 1..LifeHosts : AgentResult(h)
  \/ Running /\ \E k \in 1..LifeConns : SocketClose(k)
  \/ DaemonSigterm
  \/ DaemonSigint
  \/ DaemonRestart
  \/ ServerClosed
  \/ ForceExit

SpecSignals == InitSignals /\ [][NextSignals]_vars

\* The timer of restart() fires when its time has come.
SpecSignalsFair == SpecSignals /\ WF_vars(ForceExit)

\* Two channels side by side, each with its host.
InitTwo ==
  /\ env = [scope |-> Channels, sends |-> TwoSends, kinds |-> {"text"},
            hosts |-> LifeHosts, conns |-> LifeConns, attempts |-> LifeAttempts,
            polls |-> LifePolls, serial |-> FALSE,
            push |-> NoPush]
  /\ InitState

NextTwo ==
  \/ \E c \in Channels, kind \in Kinds : SendCall(c, kind)
  \/ \E a \in 1..LifeAttempts : ConnectOk(a)
  \/ \E a \in 1..LifeAttempts : ConnectFail(a)
  \/ \E h \in 1..LifeHosts : HostListen(h)
  \/ \E h \in 1..LifeHosts : AgentResult(h)
  \/ \E h \in 1..LifeHosts, clean \in BOOLEAN : HostDies(h, clean)
  \/ \E k \in 1..LifeConns : SocketClose(k)

SpecTwo == InitTwo /\ [][NextTwo]_vars

\* A daemon that may die while it saves the session records, and its
\* successor.
InitCrash ==
  /\ env = [scope |-> {"x"}, sends |-> LifeSends, kinds |-> {"text"},
            hosts |-> LifeHosts, conns |-> LifeConns, attempts |-> LifeAttempts,
            polls |-> LifePolls, serial |-> TRUE,
            push |-> NoPush]
  /\ InitState

NextCrash ==
  \/ \E c \in Channels, kind \in Kinds : SendCall(c, kind)
  \/ \E a \in 1..LifeAttempts : ConnectOk(a)
  \/ \E a \in 1..LifeAttempts : ConnectFail(a)
  \/ \E h \in 1..LifeHosts : HostListen(h)
  \/ \E h \in 1..LifeHosts : AgentResult(h)
  \/ \E h \in 1..LifeHosts : HostSockClose(h, hosts[h].client)
  \/ \E h \in 1..LifeHosts : CrashSaving(h)

SpecCrash == InitCrash /\ [][NextCrash]_vars

\* The daemon's two paths side by side: sends dispatched on a channel, and
\* pushes through the registry.
InitMix ==
  /\ env = [scope |-> {"x"}, sends |-> MixSends, kinds |-> {"text"},
            hosts |-> MaxHosts, conns |-> MaxConns, attempts |-> MaxAttempts,
            polls |-> LifePolls, serial |-> FALSE,
            push |-> [registers |-> MixPushes, pushes |-> MixPushes,
                      prefixes |-> {<<"t">>}, channels |-> {<<"t", "x">>},
                      media |-> {"undefined"}]]
  /\ InitState

NextMix ==
  \/ \E c \in Channels, kind \in Kinds : SendCall(c, kind)
  \/ \E a \in 1..MaxAttempts : ConnectOk(a)
  \/ \E a \in 1..MaxAttempts : ConnectFail(a)
  \/ \E h \in 1..MaxHosts : HostListen(h)
  \/ \E h \in 1..MaxHosts : AgentResult(h)
  \/ \E prefix \in Prefixes, handler \in PushHandlers : PushRegister(prefix, handler)
  \/ \E channel \in PushChannels, media \in Media, ok \in BOOLEAN :
       PushSend(channel, media, ok)

SpecMix == InitMix /\ [][NextMix]_vars

\* Sends with and without a channel context on one channel.
InitContext ==
  /\ env = [scope |-> {"x"}, sends |-> ContextSends, kinds |-> Kinds,
            hosts |-> MaxHosts, conns |-> MaxConns, attempts |-> MaxAttempts,
            polls |-> LifePolls, serial |-> FALSE,
            push |-> NoPush]
  /\ InitState

NextContext ==
  \/ \E c \in Channels, kind \in Kinds : SendCall(c, kind)
  \/ \E c \in Channels, kind \in Kinds : SendContextCall(c, kind)
  \/ \E a \in 1..MaxAttempts : ConnectOk(a)
  \/ \E a \in 1..MaxAttempts : ConnectFail(a)
  \/ \E h \in 1..MaxHosts : HostListen(h)
  \/ \E h \in 1..MaxHosts : AgentResult(h)

SpecContext == InitContext /\ [][NextContext]_vars

\* The HTTP adapter in front of the manager and the registry, with and
\* without a configured token.
InitHttp ==
  /\ \E token \in Tokens :
       env = [scope |-> {"x"}, sends |-> HttpSends, kinds |-> {"text"},
              hosts |-> MaxHosts, conns |-> MaxConns, attempts |-> MaxAttempts,
              polls |-> LifePolls, serial |-> FALSE,
              push |-> [registers |-> HttpPushes, pushes |-> HttpPushes,
                        prefixes |-> {<<"t">>}, channels |-> {<<"t", "x">>, <<"h", "t", "t", "p">>},
                        media |-> {"undefined"}],
              httpToken |-> token, headers |-> Headers, requests |-> MaxRequests]
  /\ InitState

NextHttp ==
  \/ \E header \in Headers, c \in Channels : HttpMessage(header, c)
  \/ \E header \in Headers, channel \in PushChannels, ok \in BOOLEAN :
       HttpSend(header, channel, ok)
  \/ \E header \in Headers : HttpRestart(header)
  \/ RestartTimer
  \/ \E a \in 1..MaxAttempts : ConnectOk(a)
  \/ \E a \in 1..MaxAttempts : ConnectFail(a)
  \/ \E h \in 1..MaxHosts : HostListen(h)
  \/ \E h \in 1..MaxHosts : AgentResult(h)
  \/ \E prefix \in Prefixes, handler \in PushHandlers : PushRegister(prefix, handler)

SpecHttp == InitHttp /\ [][NextHttp]_vars

\* The Telegram adapter in front of the manager, with an empty and with a
\* non-empty allow list.
InitTelegram ==
  /\ \E allowed \in AllowLists :
       env = [scope |-> {"x"}, sends |-> TelegramSends, kinds |-> Kinds,
              hosts |-> MaxHosts, conns |-> MaxConns, attempts |-> MaxAttempts,
              polls |-> LifePolls, serial |-> FALSE,
              push |-> NoPush,
              allowedUsers |-> allowed, updates |-> MaxUpdates]
  /\ InitState

NextTelegram ==
  \/ CreateTelegramAdapter
  \/ \E userId \in Users, c \in Channels : TelegramText(userId, c)
  \/ \E userId \in Users, c \in Channels, kind \in Kinds : TelegramMedia(userId, c, kind)
  \/ \E a \in 1..MaxAttempts : ConnectOk(a)
  \/ \E a \in 1..MaxAttempts : ConnectFail(a)
  \/ \E h \in 1..MaxHosts : HostListen(h)
  \/ \E h \in 1..MaxHosts : AgentResult(h)

SpecTelegram == InitTelegram /\ [][NextTelegram]_vars

\* A session host and the daemons that connect to it, one after the other.
InitClient ==
  /\ env = [scope |-> {"x"}, sends |-> HostSends, kinds |-> {"text"},
            hosts |-> MaxHosts, conns |-> MaxConns, attempts |-> MaxAttempts,
            polls |-> LifePolls, serial |-> FALSE,
            push |-> NoPush]
  /\ InitState

NextClient ==
  \/ \E c \in Channels, kind \in Kinds : SendCall(c, kind)
  \/ \E a \in 1..MaxAttempts : ConnectOk(a)
  \/ \E a \in 1..MaxAttempts : ConnectFail(a)
  \/ \E h \in 1..MaxHosts : HostListen(h)
  \/ \E h \in 1..MaxHosts : HostClientLine(h)
  \/ \E h \in 1..MaxHosts : AgentAnswer(h)
  \/ \E h \in 1..MaxHosts : HostAgentLine(h)
  \/ \E h \in 1..MaxHosts, k \in 1..MaxConns : HostSockClose(h, k)
  \/ \E k \in 1..MaxConns : SocketClose(k)
  \/ Shutdown
  \/ Restart

SpecClient == InitClient /\ [][NextClient]_vars

\* ------------------------------------------------------------------ claims

Ids == DOMAIN msgs
ConnOf(m) == frames[msgs[m].frame].conn
\* m's frame is written and its future is still pending
InFlight(m) == msgs[m].fut = "pending" /\ msgs[m].frame # 0
\* the step is the arrival, on connection k, of the result line that completes its dispatch
Completes(k) ==
  /\ conns[k].handler # 0
  /\ msgs[conns[k].handler].fut = "pending"
  /\ msgs'[conns[k].handler].fut = "resolved"
BatchAllText(batch) == \A i \in 1..Len(batch) : msgs[batch[i]].content.kind = "text"
Increasing(q) == \A i, j \in 1..Len(q) : i < j => q[i] < q[j]

\* C1: on every channel, at most one written user frame is awaiting its
\* result line on a socket that has not been closed, and a step never writes
\* a frame to a connection that has one in flight.
C1_OneInFlight ==
  /\ \A c \in Channels :
       Cardinality({m \in Ids : /\ msgs[m].ch = c
                                /\ InFlight(m)
                                /\ conns[ConnOf(m)].st # "closed"}) <= 1
  /\ \A k \in 1..Len(conns) :
       Cardinality({m \in Ids : InFlight(m) /\ ConnOf(m) = k}) <= 1

\* a dispatch is in flight and a later send of the channel waits in the queue
C1_Witness ==
  \E k \in 1..Len(conns) :
    /\ conns[k].busy /\ conns[k].queue # <<>>
    /\ \E m \in Ids : InFlight(m) /\ ConnOf(m) = k /\ conns[k].st = "open"

\* C2: when the future of a send resolves with a non-coalesced result, no
\* later send to the same channel has resolved with a non-coalesced result
\* before it or resolves in the same step.
C2_ResolveInSendOrder ==
  [][\A m \in Ids, n \in Ids :
       (/\ m < n
        /\ msgs[m].ch = msgs[n].ch
        /\ msgs[m].fut = "pending"
        /\ msgs'[m].fut = "resolved")
       => (msgs[n].fut # "resolved" /\ msgs'[n].fut # "resolved")]_vars

\* three sends of one channel resolved with real results, the second from the
\* re-queue path of a mixed batch
C2_Witness ==
  /\ Len(msgs) = 3
  /\ \A m \in Ids : msgs[m].fut = "resolved" /\ msgs[m].ch = "x"
  /\ msgs[2].content.kind = "blocks"
  /\ Len(batchLog) = 2 /\ batchLog[1].members = <<2, 3>>

\* the texts of a batch joined with a blank line, from the left
RECURSIVE BlankLineJoined(_, _)
BlankLineJoined(batch, n) ==
  IF n = 1 THEN msgs[batch[1]].content.body
  ELSE BlankLineJoined(batch, n - 1) \o "\n\n" \o msgs[batch[n]].content.body

\* C3: when a dispatch completes and the queue holds n >= 2 entries that are
\* all plain text, the step writes exactly one frame, whose content is the n
\* texts joined in arrival order by a blank line, resolves the first n-1
\* futures as coalesced, and leaves the last one pending as the message whose
\* event handler (and onEvent) is installed; a coalesced future never has a
\* frame or a result of its own.
C3_CoalesceAllText ==
  /\ [][\A k \in 1..Len(conns) :
         LET batch == conns[k].queue
             n == Len(batch)
         IN (Completes(k) /\ n >= 2 /\ BatchAllText(batch)) =>
              /\ Len(frames') = Len(frames) + 1
              /\ frames'[Len(frames')] =
                   [conn |-> k,
                    content |-> [kind |-> "text", body |-> BlankLineJoined(batch, n)],
                    for |-> batch[n]]
              /\ \A i \in 1..(n - 1) :
                   /\ msgs'[batch[i]].fut = "coalesced"
                   /\ msgs'[batch[i]].turn = 0
                   /\ msgs'[batch[i]].frame = 0
              /\ msgs'[batch[n]].fut = "pending"
              /\ msgs'[batch[n]].frame = Len(frames')
              /\ conns'[k].handler = batch[n]
              /\ conns'[k].busy
              /\ conns'[k].queue = <<>>]_vars
  /\ [](\A m \in Ids : msgs[m].fut = "resolved" => msgs[m].frame # 0)

\* sends 2 and 3 were coalesced into the frame "2\n\n3", whose result resolved send 3
C3_Witness ==
  /\ Len(msgs) = 3
  /\ msgs[2].fut = "coalesced"
  /\ msgs[3].fut = "resolved"
  /\ msgs[3].frame = 2
  /\ frames[2].content.body = "2\n\n3"

Members(b) == {b.members[i] : i \in 1..Len(b.members)}
Real(b) == {m \in Members(b) : msgs[m].fut = "resolved"}
Coalesced(b) == {m \in Members(b) : msgs[m].fut = "coalesced"}

\* C5 as stated: of the futures of any batch taken from a queue, at most one
\* gets a non-coalesced result, and once the batch's turn has its result the
\* resolved futures are as many as the batch.
C5_AsStated ==
  \A i \in 1..Len(batchLog) :
    LET b == batchLog[i]
    IN /\ Cardinality(Real(b)) <= 1
       /\ msgs[b.disp].fut = "resolved" =>
            Cardinality(Real(b) \cup Coalesced(b)) = Len(b.members)

\* C5, amended: no batch drops a message. Of a batch that is one entry or all
\* plain text, every entry but the dispatched one is resolved as coalesced
\* and at most one gets a non-coalesced result, so that once the turn has its
\* result the resolved futures are as many as the batch. Of a mixed batch only
\* the first entry is dispatched and that batch coalesces nobody: an entry of
\* it that is coalesced got that from a later, all-text batch it was part of;
\* every other entry is back in the queue, in flight in a later turn, or
\* settled.
C5_NothingDropped ==
  /\ \A i \in 1..Len(batchLog) :
       LET b == batchLog[i]
       IN IF Len(b.members) = 1 \/ BatchAllText(b.members)
          THEN /\ b.disp = b.members[Len(b.members)]
               /\ Coalesced(b) = Members(b) \ {b.disp}
               /\ Cardinality(Real(b)) <= 1
               /\ msgs[b.disp].fut = "resolved" =>
                    Cardinality(Real(b) \cup Coalesced(b)) = Len(b.members)
          ELSE /\ b.disp = b.members[1]
               /\ \A m \in Coalesced(b) :
                    \E j \in (i + 1)..Len(batchLog) :
                      /\ BatchAllText(batchLog[j].members)
                      /\ m \in Members(batchLog[j]) \ {batchLog[j].disp}
  /\ \A m \in Ids :
       msgs[m].fut = "pending" =>
         \/ msgs[m].await # 0
         \/ \E k \in 1..Len(conns) :
              \/ conns[k].handler = m
              \/ \E j \in 1..Len(conns[k].queue) : conns[k].queue[j] = m

\* a coalesced batch of two whose turn has its result
C5_Witness ==
  \E i \in 1..Len(batchLog) :
    /\ Len(batchLog[i].members) = 2
    /\ BatchAllText(batchLog[i].members)
    /\ msgs[batchLog[i].disp].fut = "resolved"
    /\ Cardinality(Coalesced(batchLog[i])) = 1

\* the sends of the burst were all made before the first result arrived
BurstQueued ==
  /\ Len(msgs) = BurstSends
  /\ Len(batchLog) >= 1
  /\ batchLog[1].members = [i \in 1..(BurstSends - 1) |-> i + 1]
AllSettled == \A m \in Ids : msgs[m].fut # "pending"
CoalescedSends == {m \in Ids : msgs[m].fut = "coalesced"}

\* C6 as stated: once the futures of the burst are all settled, all but one
\* of them (nine of ten) carry coalesced = true.
C6_AsStated ==
  (BurstQueued /\ AllSettled) => Cardinality(CoalescedSends) = BurstSends - 1

\* C6, amended: a burst of n concurrent text sends makes one frame for the
\* first send alone and one combined frame for the n-1 others, and no third
\* one; from the first result on, n-2 futures (eight of ten) carry coalesced,
\* those of the sends between the first and the last; once the second result
\* has arrived all n futures are resolved.
C6_BurstOfTextSends ==
  BurstQueued =>
    /\ Len(frames) = 2
    /\ frames[1].for = 1 /\ frames[1].content = msgs[1].content
    /\ frames[2].for = BurstSends
    /\ CoalescedSends = 2..(BurstSends - 1)
    /\ msgs[1].fut = "resolved"
    /\ msgs[BurstSends].fut \in {"pending", "resolved"}
    /\ Len(batchLog) = 1

\* the burst, all of its futures resolved
C6_Witness ==
  /\ BurstQueued
  /\ AllSettled
  /\ msgs[BurstSends].fut = "resolved"

\* C7 as stated: once the close of a host socket has been handled, no send
\* whose frame was written to that socket is left with a pending future.
C7_InFlightRejectedOnClose ==
  \A m \in Ids :
    (msgs[m].frame # 0 /\ conns[ConnOf(m)].st = "closed") => msgs[m].fut # "pending"

\* the step is the 'close' handler of connection k
Closes(k) == conns[k].st = "closing" /\ conns'[k].st = "closed"
\* the step is a send() call
Sends == Len(msgs') = Len(msgs) + 1

\* C8: the 'close' handler of a connection rejects every queued future,
\* empties the queue and removes the channel from the map; the map never
\* holds a closed connection; a send() to a channel that has no entry in the
\* map writes no frame and awaits a connect-or-spawn, a fresh one when none is
\* pending; no frame is ever written on a closed connection.
C8_CloseDropsChannel ==
  /\ [][\A k \in 1..Len(conns) :
         Closes(k) =>
           /\ \A j \in 1..Len(conns[k].queue) : msgs'[conns[k].queue[j]].fut = "rejected"
           /\ conns'[k].queue = <<>>
           /\ channels'[conns[k].ch] = 0]_vars
  /\ [](\A c \in Channels : channels[c] # 0 => conns[channels[c]].st # "closed")
  /\ [][Sends =>
         LET m == Len(msgs')
             c == msgs'[m].ch
         IN channels[c] = 0 =>
              /\ frames' = frames
              /\ msgs'[m].await # 0
              /\ msgs'[m].await = connecting'[c]
              /\ cos'[connecting'[c]].stage \in {"first", "poll"}
              /\ connecting[c] = 0 => (Len(cos') = Len(cos) + 1 /\ connecting'[c] = Len(cos'))]_vars
  /\ [][\A f \in 1..Len(frames') : f > Len(frames) => conns'[frames'[f].conn].st # "closed"]_vars

\* a connection closed with a send in its queue, and the next send of the
\* channel awaiting a second connect-or-spawn
C8_Witness ==
  \E k \in 1..Len(conns), m \in Ids, n \in Ids :
    /\ conns[k].st = "closed"
    /\ msgs[m].fut = "rejected" /\ msgs[m].frame = 0 /\ Len(cos) = 2 /\ cos[1].stage = "ok"
    /\ m < n /\ msgs[n].ch = conns[k].ch /\ msgs[n].await = 2
    /\ channels[conns[k].ch] = 0

Attempts(c) == {a \in 1..Len(cos) : cos[a].ch = c /\ InProgress(a)}

\* C9: per channel at most one connectOrSpawn is in progress, it is the one
\* the pending-connections map holds, every send() of the channel that waits
\* for a connection waits for that one, and the connectOrSpawn in progress
\* has spawned at most one host.
C9_OnePendingConnect ==
  \A c \in Channels :
    /\ Cardinality(Attempts(c)) <= 1
    /\ connecting[c] # 0 => Attempts(c) = {connecting[c]}
    /\ connecting[c] = 0 => Attempts(c) = {}
    /\ \A m \in Ids : (msgs[m].ch = c /\ msgs[m].await # 0) => msgs[m].await = connecting[c]
    /\ Cardinality({h \in 1..Len(hosts) : hosts[h].by \in Attempts(c)}) <= 1

\* two sends await the one connectOrSpawn of their channel, which has spawned a host
C9_Witness ==
  \E m \in Ids, n \in Ids :
    /\ m < n
    /\ msgs[m].await # 0
    /\ msgs[m].await = msgs[n].await
    /\ cos[msgs[m].await].stage = "poll"
    /\ Len(hosts) = 1

\* the step is the failure of connectOrSpawn invocation a
Fails(a) == InProgress(a) /\ cos'[a].stage = "failed"

\* C10: the failure of a connectOrSpawn comes after the first attempt, the
\* spawn and MaxPolls polls; it rejects every send() that awaits it and
\* leaves no entry for the channel in the pending-connections map or in the
\* channel map; no entry of the pending-connections map is a finished
\* invocation, so the next send() starts a new one.
C10_FailedConnectLeavesNothing ==
  /\ [][\A a \in 1..Len(cos) :
         Fails(a) =>
           /\ cos[a].stage = "poll" /\ cos'[a].polls = MaxPolls /\ cos[a].host # 0
           /\ \A m \in Ids : msgs[m].await = a =>
                (msgs'[m].fut = "rejected" /\ msgs'[m].await = 0)
           /\ \E m \in Ids : msgs[m].await = a
           /\ connecting'[cos[a].ch] = 0
           /\ channels'[cos[a].ch] = 0]_vars
  /\ [](\A c \in Channels : connecting[c] # 0 => InProgress(connecting[c]))
  /\ [](\A m \in Ids : msgs[m].await # 0 => (InProgress(msgs[m].await) /\ msgs[m].fut = "pending"))

\* a connectOrSpawn failed, its two sends are rejected, and a later send has
\* started the second invocation
C10_Witness ==
  /\ Len(cos) = 2
  /\ cos[1].stage = "failed"
  /\ Len(msgs) = 3
  /\ msgs[1].fut = "rejected" /\ msgs[2].fut = "rejected"
  /\ msgs[3].await = 2
  /\ connecting[msgs[3].ch] = 2

\* ----------------------------------------------- claims on the hosts' life

NoChannel == [c \in Channels |-> 0]
Live(h) == hosts[h].st # "dead"
\* the step spawns host h
Spawns(h) == h = Len(hosts) + 1 /\ Len(hosts') = h
\* the step is a restart of the daemon, a shutdownHosts() call, a shutdown()
\* call (which empties the channel map as a 'close' handler can, but closes no
\* connection yet)
Restarts == calls'.restarts = calls.restarts + 1
Kills == calls'.kills = calls.kills + 1
ShutsDown ==
  /\ calls' = calls
  /\ channels # NoChannel /\ channels' = NoChannel
  /\ \A c \in Channels : channels[c] # 0 => conns'[channels[c]].st # "closed"
\* the step is the arrival of a result line that resolves send m
Resolves(m) == msgs[m].fut = "pending" /\ msgs'[m].fut = "resolved"

C12_SessionRoundTrip ==
  /\ [][Restarts => sessions' = sessions]_vars
  /\ [][\A h \in 1..Len(hosts') :
         (Spawns(h) /\ calls.restarts >= 1) =>
            LET c == hosts'[h].ch
            IN IF \E e \in sessionFile : e[1] = c
                  THEN <<c, hosts'[h].resume>> \in sessionFile /\ hosts'[h].resume # 0
                  ELSE hosts'[h].resume = 0]_vars

\* after the restart, a connectOrSpawn of the new manager has spawned a host
\* with the id persisted before it
C12_Witness ==
  /\ calls.restarts = 1
  /\ \E h \in 1..Len(hosts) :
       /\ hosts[h].resume # 0
       /\ cos[hosts[h].by].stage = "poll"
       /\ <<hosts[h].ch, hosts[h].resume>> \in sessionFile

C14_ShutdownHostsSignals ==
  [][Kills =>
       LET known == {c \in Channels : channels[c] # 0 \/ sessions[c] # 0}
           pids == {pidFile[c] : c \in {d \in known : pidFile[d] # 0}}
       IN /\ \A h \in 1..Len(hosts) :
               hosts'[h].term = (hosts[h].term \/ (h \in pids /\ Live(h)))
          /\ channels' = NoChannel
          /\ \A c \in Channels : channels[c] # 0 => conns'[channels[c]].st = "closing"]_vars

\* shutdownHosts() has signalled the host of one channel while another
\* channel with a session record had no PID file
C14_Witness ==
  /\ calls.kills = 1
  /\ \E c \in Channels, d \in Channels :
       /\ c # d
       /\ sessions[c] # 0 /\ pidFile[c] = 0
       /\ pidFile[d] # 0 /\ hosts[pidFile[d]].term /\ Live(pidFile[d])

\* C19 as stated: a channel never has two live session hosts.
C19_OneHostPerChannel ==
  \A c \in Channels :
    Cardinality({h \in 1..Len(hosts) : hosts[h].ch = c /\ Live(h)}) <= 1

\* ------------------------------------------------ claims on the session host

\* the elements of a sequence
Range(q) == {q[i] : i \in DOMAIN q}

\* C15: a send whose frame was on the stdin of the agent, its turn not
\* finished, when the agent exited (the dispatch was in flight, and the host
\* has not handled the exit yet) is completed by nothing but the host's
\* synthetic result, the one with is_error (turn 0), whatever lines the host
\* still reads from the agents' stdout before it handles the exit.
C15_ExitIsError ==
  [][\A h \in 1..Len(hosts), m \in DOMAIN msgs :
       /\ Resolves(m)
       /\ hosts[h].st = "listening"
       /\ hosts[h].claude = "exited"
       /\ msgs[m].frame \in Range(hosts[h].stdin)
       => msgs'[m].turn = 0]_vars

\* the step is the socketRl 'line' handler of host h, taking the next line of
\* its client
ReadsClientLine(h) ==
  /\ hosts[h].st = "listening" /\ hosts'[h].st = "listening"
  /\ hosts[h].inbox # <<>> /\ hosts'[h].inbox = Tail(hosts[h].inbox)
\* the session id a respawned agent of host h is to resume
ResumeId(h) == IF hosts[h].seen # 0 THEN hosts[h].seen ELSE hosts[h].resume

Accepts(h) == hosts'[h].client # hosts[h].client /\ hosts'[h].client # 0
\* the step is the 'close' (or 'error') handler of host h for socket k
ClosesSock(h, k) == k \in hosts[h].ends /\ k \notin hosts'[h].ends /\ hosts'[h].st # "dead"
\* the step is the claudeRl 'line' handler of host h
ReadsAgentLine(h) == hosts[h].out # <<>> /\ hosts'[h].out = Tail(hosts[h].out)

\* C17: a host that accepts a connection makes the new socket its client and
\* destroys the socket that was its client (the manager no longer has it
\* open, its 'close' event is to come), and neither kills nor respawns its
\* agent; a line of the agent goes to the client of that moment and changes
\* no other connection and completes no send of another connection; the
\* 'close' of a socket that is not the client leaves the client as it is,
\* the 'close' of the client leaves the host without client.
C17_OneClient ==
  /\ [][\A h \in 1..Len(hosts) :
          Accepts(h) =>
            /\ hosts'[h].client = Len(conns) + 1
            /\ Len(conns') = Len(conns) + 1
            /\ conns'[hosts'[h].client].st = "open"
            /\ hosts[h].client # 0 =>
                 /\ hosts[h].client \in hosts'[h].ends
                 /\ conns'[hosts[h].client].st # "open"
            /\ hosts'[h].agents = hosts[h].agents
            /\ hosts'[h].claude = hosts[h].claude]_vars
  /\ [][\A h \in 1..Len(hosts) :
          ReadsAgentLine(h) =>
            /\ \A k \in 1..Len(conns) : k # hosts[h].client => conns'[k] = conns[k]
            /\ \A m \in DOMAIN msgs :
                 Resolves(m) => hosts[h].client # 0 /\ conns[hosts[h].client].handler = m]_vars
  /\ [][\A h \in 1..Len(hosts), k \in 1..Len(conns) :
          ClosesSock(h, k) =>
            hosts'[h].client = IF hosts[h].client = k THEN 0 ELSE hosts[h].client]_vars

\* C17 witness: the second connection is the client of a host whose first
\* client, replaced and destroyed, has its 'close' event still to come, and a
\* send was completed over the second connection.
C17_Witness ==
  \E h \in 1..Len(hosts), m \in DOMAIN msgs :
    /\ hosts[h].client = 2
    /\ 1 \in hosts[h].ends
    /\ conns[2].st = "open"
    /\ msgs[m].fut = "resolved" /\ frames[msgs[m].frame].conn = 2

\* the step is the SIGTERM handler, the SIGINT handler, of host h
Terminates(h) ==
  calls'.sigterms = calls.sigterms + 1 /\ hosts[h].st # "dead" /\ hosts'[h].st = "dead"
Interrupts == calls'.sigints = calls.sigints + 1

\* C18: the step in which a host handles SIGTERM leaves its agent killed, no
\* socket file and no PID file at the paths of its channel, and the host
\* ended; the step in which a host handles SIGINT changes no host, no
\* connection and no file.
C18_Signals ==
  /\ [][\A h \in 1..Len(hosts) :
          Terminates(h) =>
            /\ hosts'[h].claude = "dead"
            /\ sockOwner'[hosts[h].ch] = 0
            /\ pidFile'[hosts[h].ch] = 0]_vars
  /\ [][Interrupts =>
          /\ hosts' = hosts /\ conns' = conns
          /\ sockOwner' = sockOwner /\ pidFile' = pidFile
          /\ msgs' = msgs /\ channels' = channels]_vars

\* C18 witness: a host that listened and had a live agent has handled a
\* SIGINT, and then a SIGTERM: it is ended, with its agent, and its files are
\* gone.
C18_Witness ==
  \E h \in 1..Len(hosts) :
    /\ calls.sigints >= 1 /\ calls.sigterms >= 1
    /\ hosts[h].st = "dead" /\ hosts[h].claude = "dead"
    /\ conns # <<>>
    /\ sockOwner[hosts[h].ch] = 0 /\ pidFile[hosts[h].ch] = 0

\* ------------------------------------------------ claims on the push registry

\* the step is a PushRegistry.send() call
Pushes == Len(push'.log) = Len(push.log) + 1
\* the entries of the registry whose prefix the channel starts with
Matching(channel) == {i \in 1..Len(push.handlers) : StartsWith(channel, push.handlers[i].prefix)}
Min(S) == CHOOSE i \in S : \A j \in S : i <= j

\* C20: a send() to a channel that starts with a registered prefix calls one
\* handler, once: the handler of the first entry, in the order of
\* registration, whose prefix the channel starts with, be a later matching
\* prefix longer or not; and send() resolves to what that handler gave.
C20_FirstMatch ==
  [][Pushes =>
       LET e == push'.log[Len(push'.log)]
       IN Matching(e.channel) # {} =>
            /\ Len(e.called) = 1
            /\ e.called[1].handler = push.handlers[Min(Matching(e.channel))].handler
            /\ e.returned = e.called[1].gave]_vars

\* C20 witness: a send to tg-1 with the prefix t registered before tg-, each
\* with a handler of its own: the handler of t was called and gave false.
C20_Witness ==
  /\ Len(push.handlers) >= 2
  /\ push.handlers[1] = [prefix |-> <<"t">>, handler |-> 1]
  /\ push.handlers[2] = [prefix |-> <<"t", "g", "-">>, handler |-> 2]
  /\ \E n \in 1..Len(push.log) :
       push.log[n] = [channel |-> <<"t", "g", "-", "1">>,
                      called |-> <<[handler |-> 1, channel |-> <<"t", "g", "-", "1">>,
                                     media |-> "undefined", gave |-> FALSE]>>,
                      returned |-> FALSE]

\* C21: a send() to a channel that starts with no registered prefix, the
\* registry empty or not, calls no handler and resolves to false.
C21_NoMatch ==
  [][Pushes =>
       LET e == push'.log[Len(push'.log)]
       IN Matching(e.channel) = {} => e.called = <<>> /\ e.returned = FALSE]_vars

\* C21 witness: a first send that called a handler (the registry was not
\* empty), then a send to a channel no prefix matched: no call, false.
C21_Witness ==
  /\ Len(push.log) = 2
  /\ push.log[1].called # <<>>
  /\ push.log[2] = [channel |-> <<"h", "t", "t", "p">>, called |-> <<>>, returned |-> FALSE]

\* the step is a register() call
Registers == push'.registers = push.registers + 1

\* C22: the registry holds each prefix once, in the order of the first
\* registrations, each with the handler registered last for it; and a send()
\* calls no handler but the one registered last for the prefix it matched.
C22_LastWriterWins ==
  /\ [](PrefixesOf(push) = push.firsts)
  /\ [](\A i, j \in 1..Len(push.handlers) :
           push.handlers[i].prefix = push.handlers[j].prefix => i = j)
  /\ [](\A i \in 1..Len(push.handlers) :
           push.handlers[i].handler = push.newest[push.handlers[i].prefix])
  /\ [][Pushes =>
          LET e == push'.log[Len(push'.log)]
          IN \A n \in 1..Len(e.called) :
               /\ Matching(e.channel) # {}
               /\ e.called[n].handler =
                    push.newest[push.handlers[Min(Matching(e.channel))].prefix]
               /\ <<push.handlers[Min(Matching(e.channel))].prefix, e.called[n].handler>>
                    \notin push.olds]_vars

\* C22 witness: handler 1 was registered for t, then tg-, then handler 2 for
\* t: the prefixes are t, tg- and a send to tx called handler 2 only.
C22_Witness ==
  /\ <<(<<"t">>), 1>> \in push.olds
  /\ PrefixesOf(push) = << <<"t">>, <<"t", "g", "-">> >>
  /\ push.handlers[1].handler = 2
  /\ \E n \in 1..Len(push.log) :
       /\ push.log[n].channel = <<"t", "x">>
       /\ Len(push.log[n].called) = 1
       /\ push.log[n].called[1].handler = 2

\* C23: the handler a send() calls gets the third argument of the send()
\* (undefined when none was given).
C23_MediaForwarded ==
  (\A n \in 1..Len(push.log) :
       \A j \in 1..Len(push.log[n].called) :
          push.log[n].called[j].media = push.given[n])

\* C24: a register() and a send() of the push registry leave the channel
\* map, the pending connections, the connections (busy flag, queue, handler),
\* the session records and their file, the sends and their futures as they
\* are, and write no frame to a host.
C24_PushLeavesDispatch ==
  [][Pushes \/ Registers =>
       /\ channels' = channels /\ connecting' = connecting /\ cos' = cos
       /\ conns' = conns
       /\ sessions' = sessions /\ sessionFile' = sessionFile
       /\ msgs' = msgs
       /\ frames' = frames /\ hosts' = hosts]_vars

\* C24 witness: a push that called a handler while a send was in flight on a
\* busy connection with a second send queued behind it.
C24_Witness ==
  /\ Len(push.log) >= 1 /\ push.log[1].called # <<>>
  /\ \E k \in 1..Len(conns) :
       conns[k].busy /\ conns[k].queue # <<>> /\ channels[conns[k].ch] = k

\* ------------------------------------------------------ claims on the events

\* C25: the callback of a send is called only while the future of the send is
\* pending: every call, the one with the result line included, is made before
\* the future is settled, and none after.
C25_EventsBeforeResolve ==
  /\ [](\A m \in DOMAIN msgs : msgs[m].late = 0)
  /\ [][\A m \in DOMAIN msgs :
          /\ msgs'[m].events # msgs[m].events => msgs[m].fut = "pending"
          /\ msgs[m].fut # "pending" =>
               msgs'[m].events = msgs[m].events /\ msgs'[m].late = msgs[m].late]_vars

\* C25 witness: a send completed after its callback got an event line and
\* the result line, and the callback of a send that was coalesced away got
\* nothing, while the events of the combined turn went to the last send.
C25_Witness ==
  \E m, n, l \in DOMAIN msgs :
    /\ msgs[m].fut = "resolved" /\ msgs[m].events = 2
    /\ msgs[n].fut = "coalesced" /\ msgs[n].events = 0
    /\ l > n /\ msgs[l].events >= 1

\* ---------------------------------------------------- claims on the channels

\* all that the manager and the hosts hold for channel c
Of(c) ==
  [channels |-> channels[c], connecting |-> connecting[c], session |-> sessions[c],
   conns |-> [k \in {j \in 1..Len(conns) : conns[j].ch = c} |-> conns[k]],
   msgs |-> [m \in {j \in 1..Len(msgs) : msgs[j].ch = c} |-> msgs[m]],
   cos |-> [a \in {j \in 1..Len(cos) : cos[j].ch = c} |-> cos[a]],
   hosts |-> [h \in {j \in 1..Len(hosts) : hosts[j].ch = c} |-> hosts[h]]]
\* the step is a send() call
Calls == Len(msgs') = Len(msgs) + 1

\* C26: no step (a send, a connection made or failed, a host coming up or
\* going, a result, a socket closing) changes what is held for two channels;
\* and a send() on a channel is treated by the state of its own channel
\* alone: dispatched in the call when the channel is connected and not busy,
\* queued on its own connection when that is busy, made to wait for the
\* pending connection of its own channel, or starting one, and never
\* rejected in the call; a connection that is made has its first send
\* dispatched at once.
C26_ChannelsIndependent ==
  /\ [][\A c, d \in Channels : c # d => Of(c)' = Of(c) \/ Of(d)' = Of(d)]_vars
  /\ [][Calls =>
          LET m == Len(msgs')
              c == msgs'[m].ch
              k == channels[c]
          IN /\ msgs'[m].fut = "pending"
             /\ k # 0 /\ ~conns[k].busy =>
                  msgs'[m].frame # 0 /\ conns'[k].busy /\ conns'[k].handler = m
             /\ k # 0 /\ conns[k].busy =>
                  conns'[k].queue = Append(conns[k].queue, m)
             /\ k = 0 /\ connecting[c] # 0 => msgs'[m].await = connecting[c]
             /\ k = 0 /\ connecting[c] = 0 =>
                  /\ Len(cos') = Len(cos) + 1
                  /\ cos'[Len(cos')].ch = c
                  /\ msgs'[m].await = Len(cos')]_vars
  /\ [][\A c \in Channels :
          channels[c] = 0 /\ channels'[c] # 0 => conns'[channels'[c]].busy]_vars

\* C26 witness: the connections of the two channels are open and busy at the
\* same time, each with the dispatch of a send of its channel in flight.
C26_Witness ==
  \E k, j \in 1..Len(conns) :
    /\ conns[k].ch = "x" /\ conns[j].ch = "y"
    /\ conns[k].st = "open" /\ conns[j].st = "open"
    /\ conns[k].busy /\ conns[j].busy
    /\ conns[k].handler # 0 /\ conns[j].handler # 0

\* ------------------------------------------------ claims on the session file

\* the step is the death of the daemon in saveSessions()
Crashes == calls'.crashes = calls.crashes + 1

\* C27: when the daemon dies in saveSessions(), the session file afterwards
\* is either the document it was before or the document of the new records,
\* whole.
C27_AtomicSave ==
  [][Crashes =>
       \/ sessionFile' = sessionFile
       \/ sessionFile' = {<<c, lastLine'[c]>> : c \in {d \in Channels : lastLine'[d] # 0}}]_vars

\* The header of a channel context, as the specification writes it.
HeaderStart == "[channel: "

HasHeader(content) ==
  /\ Len(content.body) >= Len(HeaderStart)
  /\ SubSeq(content.body, 1, Len(HeaderStart)) = HeaderStart

\* Frame f was written for a send that a channel context came with.
WithContext(f) == msgs[frames[f].for].onEvent = "context"

\* C28: when a channel context accompanies a send, the content written to
\* the host starts with one context header, and when none does the content
\* is written without a header.
C28_ContextHeader ==
  \A f \in DOMAIN frames : WithContext(f) <=> HasHeader(frames[f].content)
\* The step answers one more HTTP request.
Answers == calls'.http = calls.http + 1

Answer == calls'.answer

\* C29: with a token configured, a request whose Authorization header is
\* not exactly 'Bearer <token>' is answered 401 and reaches neither
\* ProcessManager.send nor PushRegistry.send nor restart; a request with the
\* exact header is not answered 401 and reaches its route.
C29_BearerOnly ==
  [][(Answers /\ env.httpToken # "") =>
       IF Answer.header = "Bearer " \o env.httpToken
          THEN /\ Answer.status # 401
               /\ \/ Len(msgs') = Len(msgs) + 1
                  \/ Len(push'.log) = Len(push.log) + 1
                  \/ calls'.timers = calls.timers + 1
          ELSE /\ Answer.status = 401
               /\ msgs' = msgs /\ frames' = frames /\ cos' = cos
               /\ push' = push
               /\ calls'.timers = calls.timers /\ calls'.restarts = calls.restarts]_vars

C29_Witness ==
  /\ env.httpToken # ""
  /\ calls.answer.status = 401 /\ calls.answer.header = "Bearer wrong"
  /\ \E m \in DOMAIN msgs : msgs[m].onEvent = "context"
\* The step handles one more Telegram update.
Updates == calls'.updates = calls.updates + 1

\* C30: the Telegram adapter has no default-allow: with an empty allow list
\* its creation fails and no bot runs, and a message, text or media, of a
\* user who is not on the allow list never becomes a ProcessManager.send.
C30_NoDefaultAllow ==
  /\ [](Cardinality(env.allowedUsers) = 0 =>
          calls.bot \in {"none", "failed"} /\ calls.updates = 0 /\ msgs = <<>>)
  /\ [][(Updates /\ calls'.update.user \notin env.allowedUsers) =>
          msgs' = msgs /\ frames' = frames /\ cos' = cos /\ conns' = conns]_vars

C30_Witness ==
  /\ calls.update.user \notin env.allowedUsers
  /\ calls.update.type = "media"
  /\ calls.updates >= 2
  /\ Len(msgs) = 1
\* The managed channels: the connections in the channel map.
Managed == {channels[c] : c \in Channels} \ {0}

\* C31: for every managed channel, between callbacks, the event handler is
\* set exactly when the channel is busy, and a queue that is not empty
\* implies that the channel is busy.
C31_BusyHandlerQueue ==
  \A k \in Managed :
    /\ conns[k].handler # 0 <=> conns[k].busy
    /\ conns[k].queue # <<>> => conns[k].busy

\* A managed channel that is idle again after a drained queue, its handler
\* cleared.
C31_Witness ==
  \E k \in Managed :
    /\ ~conns[k].busy /\ conns[k].handler = 0 /\ conns[k].queue = <<>>
    /\ \E i \in 1..Len(batchLog) : batchLog[i].conn = k
    /\ \E m \in Ids : msgs[m].fut = "resolved" /\ msgs[m].frame # 0 /\ ConnOf(m) = k
\* The step is the line handler of the manager for a line of type type that
\* host h forwards while a dispatch is in flight on its client.
Hears(h, type) ==
  /\ ReadsAgentLine(h)
  /\ Head(hosts[h].out).type = type
  /\ Reaches(Cur, h)
  /\ conns[hosts[h].client].handler # 0

Told(h) == msgs'[conns[hosts[h].client].handler].events
             - msgs[conns[hosts[h].client].handler].events

HearsStderr == calls'.stderrs = calls.stderrs + 1

StderrIsSilent ==
  HearsStderr => /\ msgs' = msgs /\ conns' = conns /\ batchLog' = batchLog
                 /\ sessions' = sessions /\ sessionFile' = sessionFile

\* C32 as stated: the callback of the send in flight is called for every line
\* that is neither the result line nor a _stderr line, and for neither of
\* the two; a _stderr line completes nothing and changes neither busy, the
\* queue nor the session record.
C32_AsStated ==
  [][/\ \A h \in 1..Len(hosts) :
          /\ Hears(h, "assistant") => Told(h) = 1
          /\ Hears(h, "result") => Told(h) = 0
     /\ StderrIsSilent]_vars

\* C32, amended: the callback of the send in flight is called once for every
\* line that is not a _stderr line, the result line included (before the
\* send is completed), and never for a _stderr line; a _stderr line
\* completes nothing and changes neither busy, the queue nor the session
\* record.
C32_CallbackGetsResultToo ==
  [][/\ \A h \in 1..Len(hosts) :
          /\ Hears(h, "assistant") => Told(h) = 1
          /\ Hears(h, "result") =>
               /\ Told(h) = 1
               /\ msgs[conns[hosts[h].client].handler].fut = "pending"
               /\ msgs'[conns[hosts[h].client].handler].fut = "resolved"
     /\ StderrIsSilent]_vars

\* A send completed after its callback heard an assistant line and the result
\* line, with a _stderr line in between that the callback did not hear.
C32_Witness ==
  /\ calls.stderrs >= 1
  /\ \E m \in DOMAIN msgs : msgs[m].fut = "resolved" /\ msgs[m].events = 2
  /\ \E m \in DOMAIN msgs : msgs[m].fut = "pending" /\ msgs[m].frame # 0
\* C33: a line of the agent's stdout that the host reads while it has a
\* client goes to that client as it is, in the order of the agent's output,
\* after the host has recorded the session id of a result line; a line read
\* while there is no client is dropped: it is neither kept by the host nor
\* given to a later client.
C33_ForwardVerbatim ==
  [][\A h \in 1..Len(hosts) :
       (ReadsAgentLine(h) /\ hosts'[h].st # "dead") =>
         LET line == Head(hosts[h].out)
             k == hosts[h].client
         IN /\ (line.type = "result" /\ line.sid # 0) => hosts'[h].lastSessionId = line.sid
            /\ hosts'[h].pendingMessages = hosts[h].pendingMessages
            /\ IF Reaches(Cur, h)
                  THEN /\ line.sid # 0 => sessions'[hosts[h].ch] = line.sid
                       /\ conns[k].handler # 0 =>
                            /\ msgs'[conns[k].handler].fut = "resolved"
                            /\ msgs'[conns[k].handler].turn = line.turn
                  ELSE /\ msgs' = msgs /\ conns' = conns /\ frames' = frames
                       /\ sessions' = sessions /\ sessionFile' = sessionFile]_vars

\* The answer to a frame was dropped (its send is still pending behind a
\* closed socket, the agent has answered and the host has read the line),
\* and the client that connected later is idle: it was given nothing.
C33_Witness ==
  \E h \in 1..Len(hosts), m \in DOMAIN msgs :
    /\ msgs[m].fut = "pending" /\ msgs[m].frame # 0
    /\ conns[ConnOf(m)].st = "closed"
    /\ \E n \in 1..Len(hosts[h].agents) : msgs[m].frame \in Range(hosts[h].agents[n].wrote)
    /\ hosts[h].stdin = <<>> /\ hosts[h].out = <<>> /\ hosts[h].inbox = <<>>
    /\ hosts[h].client > ConnOf(m)
    /\ conns[hosts[h].client].st = "open" /\ ~conns[hosts[h].client].busy
    /\ \E l \in DOMAIN msgs : msgs[l].fut = "resolved"
\* ------------------------------------------- claims on the gating host

LiveAgents == {a \in 1..Len(hosts[1].agents) : hosts[1].agents[a].live}

\* C34: a session host has at most one live agent at any time: it spawns an
\* agent only when the previous one has exited, also after an interrupt
\* frame was forwarded to the agent as a signal.
C34_OneLiveAgent == Cardinality(LiveAgents) <= 1
\* Everything that was ever written to the stdin of an agent of the host.
Written(g) == UNION {Range(g.agents[a].wrote) : a \in 1..Len(g.agents)}

\* The step is the claudeRl 'line' handler for a line of agent a.
GatedReads(a) ==
  /\ a \in 1..Len(hosts[1].agents)
  /\ hosts[1].agents[a].out # <<>>
  /\ hosts'[1].agents[a].out = Tail(hosts[1].agents[a].out)

\* C38: in the gating host, while a resumed agent is not ready no line of an
\* agent's stdout is forwarded to the client and a user line of the client
\* is buffered; the buffered lines are written to the agent's stdin in the
\* order of their arrival, and no buffered line is discarded by an exit or
\* a respawn of the agent.
C38_BufferedLinesKept ==
  [][/\ \A a \in 1..MaxGatedAgents :
          (GatedReads(a) /\ ~hosts[1].claudeReady) => hosts'[1].toClient = hosts[1].toClient
     /\ \A f \in Range(hosts[1].pendingMessages) :
          \/ f \in Range(hosts'[1].pendingMessages)
          \/ f \in Written(hosts'[1])
     /\ \A a \in 1..Len(hosts'[1].agents) : Increasing(hosts'[1].agents[a].wrote)]_vars
\* ------------------------------------------- claims on the daemon's signals

\* The step is a signal handler (or restart()) of the daemon.
Handles(signal) == calls.daemon = "running" /\ calls'.daemon # "running" /\ calls'.signal = signal

\* C35: of the daemon's handlers only the one of SIGINT signals session
\* hosts; the ones of SIGTERM and of the restart (SIGHUP, POST /restart) only
\* disconnect from the hosts; SIGTERM and SIGINT end the daemon at once, and
\* a restart ends it eventually, also when the HTTP listener never closes.
C35_SignalsOfTheDaemon ==
  /\ [][/\ (\E h \in 1..Len(hosts) : hosts'[h].term /\ ~hosts[h].term) => Handles("SIGINT")
        /\ (Handles("SIGTERM") \/ Handles("restart")) =>
             /\ channels' = NoChannel
             /\ \A c \in Channels : channels[c] # 0 => conns'[channels[c]].st = "closing"
             /\ \A h \in 1..Len(hosts) : hosts'[h].st = hosts[h].st
        /\ (Handles("SIGTERM") \/ Handles("SIGINT")) => calls'.daemon = "exited"]_vars
  /\ [](calls.daemon = "restarting" => <>(calls.daemon = "exited"))

\* The daemon has exited after a restart, the host of its channel alive,
\* without client and never signalled.
C35_Witness ==
  /\ calls.daemon = "exited" /\ calls.signal = "restart"
  /\ \E h \in 1..Len(hosts) : Live(h) /\ ~hosts[h].term /\ hosts[h].client = 0
  /\ \E m \in DOMAIN msgs : msgs[m].fut = "resolved"
\* ------------------------------------------------ claims on the attribution

\* C36: a send that is completed by a result line of an agent is completed
\* by the result of the turn of its own frame (its message, or the combined
\* message it was the last of), never by the result line of an earlier frame.
C36_OwnResult ==
  \A m \in DOMAIN msgs :
    (msgs[m].fut = "resolved" /\ msgs[m].turn # 0) => msgs[m].turn = msgs[m].frame

\* ------------------------------------------------ claims on the client lines

\* The lines host h has taken from its clients and still answers for: what it
\* wrote to the stdin of its agents, oldest agent first, then its buffer.
RECURSIVE WroteUpTo(_, _)
WroteUpTo(agents, n) ==
  IF n = 0 THEN <<>> ELSE WroteUpTo(agents, n - 1) \o agents[n].wrote

Taken(g) == WroteUpTo(g.agents, Len(g.agents)) \o g.pendingMessages

\* C37: the session host loses and duplicates no client line: the step in
\* which it reads a line adds exactly that line, after all the earlier ones,
\* to what it has written to its agents or holds in its buffer, and no other
\* step of a running host changes what was written and buffered.
C37_NoLineLost ==
  [][\A h \in DOMAIN hosts :
       hosts'[h].st = "listening" =>
         IF ReadsClientLine(h) /\ hosts[h].inbox # <<>>
            THEN Taken(hosts'[h]) = Append(Taken(hosts[h]), Head(hosts[h].inbox))
            ELSE Taken(hosts'[h]) = Taken(hosts[h])]_vars

\* ------------------------------------------------ claims on the waiting

\* message m waits in the queue of a connection
Waits(m) == m \in DOMAIN msgs /\ \E k \in DOMAIN conns : m \in Range(conns[k].queue)
\* message m was dispatched, alone or as the last of a combined turn, and its
\* future is resolved; or it went into a combined turn that was dispatched
\* and its future is resolved as coalesced
Served(m) ==
  /\ m \in DOMAIN msgs
  /\ \/ msgs[m].fut = "resolved" /\ msgs[m].frame # 0
     \/ /\ msgs[m].fut = "coalesced"
        /\ \E i \in DOMAIN batchLog :
             /\ m \in Members(batchLog[i]) /\ batchLog[i].disp # m
             /\ msgs[batchLog[i].disp].frame # 0

\* C39: on a channel whose dispatches all get their result line and whose
\* socket stays open, a message that waits in the queue is eventually
\* dispatched, alone or in a combined turn, and its future resolves, whatever
\* further messages arrive meanwhile.
C39_NoStarvation == \A m \in 1..QueueSends : Waits(m) ~> Served(m)

\* Reached: a message that was put back into the queue behind a block message
\* while a later message arrived behind it, now dispatched alone and resolved.
C39_Witness ==
  \E m \in DOMAIN msgs, i \in DOMAIN batchLog :
    /\ m \in Members(batchLog[i]) /\ batchLog[i].disp # m
    /\ msgs[batchLog[i].disp].content.kind = "blocks"
    /\ msgs[m].fut = "resolved" /\ msgs[m].frame # 0 /\ msgs[m].turn = msgs[m].frame
    /\ \E n \in DOMAIN msgs : n > m /\ n \notin Members(batchLog[i]) /\ Served(n)

\* ------------------------------------------------ claims on the full shutdown

\* the step makes the connection that invocation a of connectOrSpawn returns
Connects(a) == InProgress(a) /\ cos'[a].stage = "ok"

\* C40: shutdownHosts() sends a termination signal to every running host the
\* manager has spawned, the host whose start connectOrSpawn is still polling
\* for and the host it gave up polling for included, and no connectOrSpawn
\* that was under way when it was called makes a connection afterwards.
C40_ShutdownReachesEveryHost ==
  /\ [][Kills => \A h \in DOMAIN hosts : Live(h) => hosts'[h].term]_vars
  /\ [][\A a \in DOMAIN cos : a \in calls.pending => ~Connects(a)]_vars
====
